---- MODULE Spec2Model ----
(***************************************************************************)
(* Model of the image analysis module of the PDF reader server             *)
(* (src/src/image_analyzer.py): OCR, basic image statistics, the lazily    *)
(* loaded captioning model and the hybrid analysis that combines them.     *)
(*                                                                         *)
(* One process handles one call at a time.  A call is one action: it takes *)
(* the process from idle (call = NoCall) to a state holding the call's     *)
(* arguments and what it returned; Return hands the result to the caller   *)
(* and makes the process idle again.  What the external collaborators do   *)
(* (file system, Tesseract, PIL/numpy, the model loader) is an argument of *)
(* the call, drawn from the outcomes they can produce.                     *)
(*                                                                         *)
(* Python values: a dict is a record whose DOMAIN is its key set; a str    *)
(* produced by OCR or by the captioner is a sequence of character codes;   *)
(* None is <<>> and a present optional value v is <<v>>.                   *)
(***************************************************************************)
EXTENDS Integers, Sequences, FiniteSets, TLC

VARIABLES
    VISION_MODEL_AVAILABLE,  \* transformers and torch were importable
    vision_processor,        \* _vision_processor: None or the name it was loaded from
    vision_model,            \* _vision_model: None or the name it was loaded from
    vision_model_loaded,     \* _vision_model_loaded
    tesseract_cmd,           \* pytesseract.pytesseract.tesseract_cmd ("" when unset)
    load_failed,             \* history: some load_vision_model call has returned False
    load_succeeded,          \* history: some load_vision_model call has returned True
    call,                    \* the call being answered, or NoCall
    user_files,              \* the caller's files that exist
    temp_files,              \* the temporary files that exist
    temp_count               \* history: how many temporary files were created

vars == <<VISION_MODEL_AVAILABLE, vision_processor, vision_model,
          vision_model_loaded, tesseract_cmd, load_failed, load_succeeded, call,
          user_files, temp_files, temp_count>>

files_vars == <<user_files, temp_files, temp_count>>

----------------------------------------------------------------------------
(* Bounds *)

\* Longest text the OCR engine or the captioner returns.
MaxTextLen == 1

----------------------------------------------------------------------------
(* Python values *)

None == <<>>
Some(v) == <<v>>

Has(d, k) == k \in DOMAIN d
Get(d, k, default) == IF k \in DOMAIN d THEN d[k] ELSE default

\* Character codes: 32 is the blank, 10 the newline, 97 a letter.
Chars == {32, 97}
IsSpace(c) == c \in {10, 32}

Texts == UNION {[1..n -> Chars] : n \in 0..MaxTextLen}

\* str.strip(): leading and trailing whitespace removed.
RECURSIVE LStrip(_)
LStrip(s) == IF s # <<>> /\ IsSpace(Head(s)) THEN LStrip(Tail(s)) ELSE s

RECURSIVE RStrip(_)
RStrip(s) ==
    IF s # <<>> /\ IsSpace(s[Len(s)]) THEN RStrip(SubSeq(s, 1, Len(s) - 1)) ELSE s

Strip(s) == RStrip(LStrip(s))

\* len(s.split()): the number of maximal runs of non-blank characters.
WordCount(s) ==
    Cardinality({i \in 1..Len(s) : ~IsSpace(s[i]) /\ (i = 1 \/ IsSpace(s[i - 1]))})

NoCall == [op |-> "none"]

----------------------------------------------------------------------------
(* Images.  A file that PIL cannot open is Unreadable; an image that opens *)
(* has a size, a mode and pixels (one tuple per pixel: 1 value in mode L,  *)
(* 3 in RGB, 4 in RGBA).  The pixel list stands for the whole pixel        *)
(* population of the image.                                                *)

Unreadable == [readable |-> FALSE]

Img(w, h, m, px) ==
    [readable |-> TRUE, width |-> w, height |-> h, mode |-> m, pixels |-> px]

TinyImage == Img(5, 5, "RGB", << <<200, 10, 10>>, <<220, 30, 30>> >>)
SmallImage == Img(30, 100, "L", << <<100>>, <<100>> >>)
PageImage == Img(100, 100, "RGB", << <<0, 0, 0>>, <<255, 255, 255>>, <<0, 0, 0>> >>)
IconImage == Img(49, 10, "RGBA", << <<10, 200, 10, 255>>, <<20, 220, 30, 0>> >>)
EdgeImage == Img(50, 50, "RGB", << <<250, 250, 250>>, <<240, 250, 230>> >>)

\* Two images of one colour each, of more than 10000 pixels: every sample of
\* their pixels holds that colour alone.
WideImage == Img(1600, 400, "RGB", << <<200, 15, 10>>, <<200, 15, 10>> >>)
TallImage == Img(400, 1600, "RGB", << <<10, 10, 40>>, <<10, 10, 40>> >>)

\* 28/47 = 0.5957...; the mean of the pixel values is 180 + 1/21.
BorderlineImage ==
    Img(28, 47, "RGB", << <<180, 180, 180>>, <<180, 180, 180>>, <<180, 180, 180>>,
                          <<181, 180, 180>>, <<180, 180, 180>>, <<180, 180, 180>>,
                          <<180, 180, 180>> >>)

\* Two pixels in five are red, two are green, one is blue.
MixedImage ==
    Img(20, 20, "RGB", << <<200, 10, 10>>, <<10, 200, 10>>, <<200, 10, 10>>,
                          <<10, 200, 10>>, <<10, 10, 200>> >>)

Images ==
    {Unreadable, TinyImage, SmallImage, PageImage, IconImage, EdgeImage,
     WideImage, TallImage, BorderlineImage, MixedImage}

----------------------------------------------------------------------------
(* analyze_image_ocr *)

TessPath == "tesseract"

OCR_MIN_SIZE == 50

\* What the file system and the Tesseract binary answer during one call:
\* os.path.exists(tesseract_cmd), whether _find_tesseract_executable finds a
\* binary, and the two get_tesseract_version checks.
TessEnvs ==
    [cmd_exists : BOOLEAN, found : BOOLEAN, version_ok : BOOLEAN, retry_ok : BOOLEAN]

OCR_PREVIEW_LEN == 200

Repeat(c, n) == [i \in 1..n |-> c]

\* Texts of a page: as long as the preview of the description, one character
\* longer, and 250 characters.
LongTexts ==
    {Repeat(97, OCR_PREVIEW_LEN), Repeat(97, OCR_PREVIEW_LEN + 1), Repeat(97, 250)}

\* What pytesseract.image_to_string does when it is called.
OcrOutcomes == [raises : BOOLEAN, text : Texts \cup LongTexts]

OcrError(msg) == [ocr_text |-> <<>>, has_text |-> FALSE, error |-> msg]

\* The try block of analyze_image_ocr without the "Skip very small images" test.
OcrTryBody_nosizecheck(img, ocr) ==
    IF ~img.readable
    THEN [raised |-> TRUE, ran |-> FALSE, exc |-> "cannot identify image file"]
    ELSE IF ocr.raises THEN [raised |-> TRUE, ran |-> TRUE, exc |-> "TesseractError"]
    ELSE [raised |-> FALSE, ran |-> TRUE,
          value |-> [ocr_text |-> Strip(ocr.text), has_text |-> Strip(ocr.text) # <<>>,
                     word_count |-> WordCount(Strip(ocr.text)),
                     character_count |-> Len(Strip(ocr.text))]]

\* The try block of analyze_image_ocr: the value it returns, or the exception.
OcrTryBody(img, ocr) ==
    IF ~img.readable
    THEN [raised |-> TRUE, ran |-> FALSE, exc |-> "cannot identify image file"]
    ELSE IF img.width < OCR_MIN_SIZE \/ img.height < OCR_MIN_SIZE
    THEN [raised |-> FALSE, ran |-> FALSE, value |-> OcrError("Image too small for OCR")]
    ELSE IF ocr.raises THEN [raised |-> TRUE, ran |-> TRUE, exc |-> "TesseractError"]
    ELSE LET ocr_text == Strip(ocr.text) IN
         [raised |-> FALSE, ran |-> TRUE,
          value |-> [ocr_text |-> ocr_text,
                     has_text |-> ocr_text # <<>>,
                     word_count |-> IF ocr_text # <<>> THEN WordCount(ocr_text) ELSE 0,
                     character_count |-> Len(ocr_text)]]

\* try: ... except Exception as e: return {"ocr_text": "", ..., "error": str(e)}
OcrMain(cmd, img, ocr) ==
    LET r == OcrTryBody(img, ocr) IN
    IF r.raised
    THEN [raised |-> FALSE, cmd |-> cmd, ran |-> r.ran, value |-> OcrError(r.exc)]
    ELSE [raised |-> FALSE, cmd |-> cmd, ran |-> r.ran, value |-> r.value]

\* The version check and the re-detection that follows a failed check.
OcrVersionCheck(cmd, img, env, ocr) ==
    IF env.version_ok THEN OcrMain(cmd, img, ocr)
    ELSE IF env.found
    THEN IF env.retry_ok THEN OcrMain(TessPath, img, ocr)
         ELSE [raised |-> FALSE, cmd |-> TessPath, ran |-> FALSE,
               value |-> OcrError("Tesseract not working")]
    ELSE [raised |-> FALSE, cmd |-> cmd, ran |-> FALSE,
          value |-> OcrError("Tesseract not working")]

\* analyze_image_ocr(image_path): cmd is tesseract_cmd before the call.  The result
\* holds the returned dict (value), tesseract_cmd after the call (cmd) and whether
\* the OCR engine was run on the image (ran).
analyze_image_ocr(cmd, img, env, ocr) ==
    IF cmd = "" \/ ~env.cmd_exists
    THEN IF env.found THEN OcrVersionCheck(TessPath, img, env, ocr)
         ELSE [raised |-> FALSE, cmd |-> cmd, ran |-> FALSE,
               value |-> OcrError("Tesseract not installed or not in PATH")]
    ELSE OcrVersionCheck(cmd, img, env, ocr)

----------------------------------------------------------------------------
(* analyze_image_basic *)

RECURSIVE SumSeq(_)
SumSeq(s) == IF s = <<>> THEN 0 ELSE Head(s) + SumSeq(Tail(s))

\* floor(sqrt(n)) for n >= 0
RECURSIVE SqrtFrom(_, _)
SqrtFrom(n, r) == IF (r + 1) * (r + 1) > n THEN r ELSE SqrtFrom(n, r + 1)

RECURSIVE SqrtBetween(_, _, _)
SqrtBetween(n, lo, hi) ==
    IF hi - lo <= 1 THEN SqrtFrom(n, lo)
    ELSE LET mid == (lo + hi) \div 2 IN
         IF mid * mid <= n THEN SqrtBetween(n, mid, hi) ELSE SqrtBetween(n, lo, mid)

ISqrt(n) == SqrtBetween(n, 0, 46340)

\* img.convert("RGB"): L repeats the gray value, RGBA drops the alpha channel.
ConvertRGB(img) ==
    [img EXCEPT !.mode = "RGB",
                !.pixels = [i \in 1..Len(img.pixels) |->
                               LET p == img.pixels[i] IN
                               IF Len(p) = 1 THEN <<p[1], p[1], p[1]>>
                               ELSE <<p[1], p[2], p[3]>>]]

\* np.array(img): the shape (height, width[, channels]) and the pixels.
ToArray(img) ==
    LET n == Len(img.pixels[1]) IN
    [ndim |-> IF n = 1 THEN 2 ELSE 3, channels |-> n, pixels |-> img.pixels]

Channel(pixels, c) == [i \in 1..Len(pixels) |-> pixels[i][c]]

\* Len(x)^2 times the population variance of the values x.
ScaledVariance(x) ==
    Len(x) * SumSeq([i \in 1..Len(x) |-> x[i] * x[i]]) - SumSeq(x) * SumSeq(x)

\* img_array.mean(axis=(0, 1)), each channel truncated by int(c) in the result.
AverageColor(arr) ==
    [c \in 1..arr.channels |-> SumSeq(Channel(arr.pixels, c)) \div Len(arr.pixels)]

COLORFUL_THRESHOLD == 30
BRIGHT_THRESHOLD == 180
DARK_THRESHOLD == 75
TEXT_CONTRAST_THRESHOLD == 50
TEXT_MEAN_THRESHOLD == 128

AllValues(pixels) == [c \in 1..Len(pixels[1]) |-> SumSeq(Channel(pixels, c))]

\* sample_pixels.std(axis=0).mean() > 30, in hundredths of the standard deviations.
IsColorful(sample) ==
    LET n == Len(sample)
        stds == [c \in 1..Len(sample[1]) |-> ISqrt(100 * ScaledVariance(Channel(sample, c)))]
    IN SumSeq(stds) > COLORFUL_THRESHOLD * 10 * n * Len(sample[1])

\* The brightness as the mean of the luminance of the sampled pixels.
BrightnessTenths_luminance(sample) ==
    LET total == SumSeq([i \in 1..Len(sample) |->
                            2989 * sample[i][1] + 5870 * sample[i][2] + 1140 * sample[i][3]])
    IN (total + 500 * Len(sample)) \div (1000 * Len(sample))

\* float(sample_pixels.mean()) as reported: round(brightness, 1), in tenths.
BrightnessTenths(sample) ==
    LET total == SumSeq(AllValues(sample))
        count == Len(sample) * Len(sample[1])
    IN (20 * total + count) \div (2 * count)

IsBright(sample) ==
    SumSeq(AllValues(sample)) > BRIGHT_THRESHOLD * Len(sample) * Len(sample[1])

\* is_dark with the threshold itself counted as dark.
IsDark_inclusive(sample) ==
    SumSeq(AllValues(sample)) <= DARK_THRESHOLD * Len(sample) * Len(sample[1])

IsDark(sample) ==
    SumSeq(AllValues(sample)) < DARK_THRESHOLD * Len(sample) * Len(sample[1])

\* np.argmax over the channels of one pixel: the first channel holding the maximum.
ArgMax(p) == CHOOSE c \in 1..3 :
    /\ \A d \in 1..3 : p[d] <= p[c]
    /\ \A d \in 1..(c - 1) : p[d] < p[c]

\* The share of sampled pixels won by channel c exceeds 0.4.
Dominant(sample, c) ==
    5 * Cardinality({i \in 1..Len(sample) : ArgMax(sample[i]) = c}) > 2 * Len(sample)

DominantHue(sample) ==
    IF Dominant(sample, 1) THEN "red"
    ELSE IF Dominant(sample, 2) THEN "green"
    ELSE IF Dominant(sample, 3) THEN "blue"
    ELSE "mixed"

\* np.dot(img_array[..., :3], [0.2989, 0.5870, 0.1140]), in tenths.
GrayTenths(p) == (2989 * p[1] + 5870 * p[2] + 1140 * p[3]) \div 1000

\* contrast > 50 and mean < 128 over the gray values g (in tenths).
LikelyText(g) ==
    /\ ScaledVariance(g) > (TEXT_CONTRAST_THRESHOLD * 10 * Len(g)) * (TEXT_CONTRAST_THRESHOLD * 10 * Len(g))
    /\ SumSeq(g) < TEXT_MEAN_THRESHOLD * 10 * Len(g)

\* The steps of the colour analysis (the inner try block), in the order they run.
\* Each one calls into PIL or numpy and may raise: "convert" is img.convert and
\* np.array (the pixel data is decoded there), "avg_color" the channel means,
\* "sample" the reshape and random sampling, "variance" the colour variance,
\* "brightness" the sample mean, "hue" the dominant hue, "text" the contrast.
StepOrder == <<"convert", "avg_color", "sample", "variance", "brightness", "hue", "text">>

FailSteps == {StepOrder[i] : i \in 1..Len(StepOrder)} \cup {"none"}

StepNo(step) == CHOOSE i \in 1..Len(StepOrder) : StepOrder[i] = step

\* The step ran to its end: the failing step, if any, comes later.
Completed(fail_at, step) == fail_at = "none" \/ StepNo(fail_at) > StepNo(step)

\* sample_pixels: min(10000, len(pixels)) pixels drawn without replacement, which
\* for an image of at most 10000 pixels is a permutation of all of them.  The
\* larger images modelled are of one colour, so that a sample of them has the
\* statistics of the whole as well.
SamplePixels(arr) == arr.pixels

\* Locals initialised to zero instead of None.
BasicInitialLocals_zero ==
    [avg_color |-> Some(<<0, 0, 0>>),
     dominant_color_type |-> "unknown",
     is_likely_text |-> FALSE,
     is_colorful |-> FALSE,
     brightness |-> Some(0),
     is_bright |-> FALSE,
     is_dark |-> FALSE,
     dominant_hue |-> "unknown"]

\* "Initialize variables"
BasicInitialLocals ==
    [avg_color |-> None,
     dominant_color_type |-> "unknown",
     is_likely_text |-> FALSE,
     is_colorful |-> FALSE,
     brightness |-> None,
     is_bright |-> FALSE,
     is_dark |-> FALSE,
     dominant_hue |-> "unknown"]

\* The branch len(img_array.shape) == 3.
ColorStats(arr, fail_at, init) ==
    LET sample == SamplePixels(arr)
        a1 == IF Completed(fail_at, "avg_color")
              THEN [init EXCEPT !.avg_color = Some(AverageColor(arr))] ELSE init
        a2 == IF Completed(fail_at, "variance")
              THEN [a1 EXCEPT !.is_colorful = IsColorful(sample)] ELSE a1
        a3 == IF Completed(fail_at, "brightness")
              THEN [a2 EXCEPT !.brightness = Some(BrightnessTenths(sample)),
                              !.is_bright = IsBright(sample),
                              !.is_dark = IsDark(sample)]
              ELSE a2
        a4 == IF ~Completed(fail_at, "brightness") THEN a3
              ELSE IF arr.channels = 3
              THEN IF Completed(fail_at, "hue")
                   THEN [a3 EXCEPT !.dominant_color_type = "color",
                                   !.dominant_hue = DominantHue(sample)]
                   ELSE [a3 EXCEPT !.dominant_color_type = "color"]
              ELSE IF arr.channels = 4
              THEN [a3 EXCEPT !.dominant_color_type = "color_with_alpha",
                              !.dominant_hue = "mixed"]
              ELSE a3
    IN a4

\* The branch for a two-dimensional (grayscale) array.
GrayStats(arr, fail_at, init) ==
    LET a1 == IF Completed(fail_at, "avg_color")
              THEN [init EXCEPT !.avg_color = Some(AverageColor(arr)),
                                !.dominant_color_type = "grayscale"]
              ELSE init
        a2 == IF Completed(fail_at, "brightness")
              THEN [a1 EXCEPT !.brightness = Some(BrightnessTenths(arr.pixels)),
                              !.is_bright = IsBright(arr.pixels),
                              !.is_dark = IsDark(arr.pixels),
                              !.dominant_hue = "grayscale"]
              ELSE a1
    IN a2

\* "Estimate if image is mostly text"
TextStats(arr, fail_at, locals) ==
    IF ~Completed(fail_at, "text") THEN locals
    ELSE IF arr.ndim = 2 \/ (arr.ndim = 3 /\ arr.channels = 1)
    THEN [locals EXCEPT !.is_likely_text =
              LikelyText([i \in 1..Len(arr.pixels) |-> 10 * arr.pixels[i][1]])]
    ELSE [locals EXCEPT !.is_likely_text =
              LikelyText([i \in 1..Len(arr.pixels) |-> GrayTenths(arr.pixels[i])])]

\* The inner try block and its except clause, which logs and keeps the locals
\* as they are: the locals when the colour analysis ends, failed or not.
ColorAnalysis(img, fail_at) ==
    IF ~Completed(fail_at, "convert") THEN BasicInitialLocals
    ELSE LET img_rgb == IF img.mode # "RGB" THEN ConvertRGB(img) ELSE img
             arr == ToArray(img_rgb)
             stats == IF arr.ndim = 3 THEN ColorStats(arr, fail_at, BasicInitialLocals)
                      ELSE GrayStats(arr, fail_at, BasicInitialLocals)
         IN TextStats(arr, fail_at, stats)

\* The aspect ratio cut off after two decimals instead of rounded.
AspectRatio_truncated(width, height) ==
    IF height > 0 THEN (100 * width) \div height ELSE 0

\* round(width / height, 2) if height > 0 else 0, in hundredths.
AspectRatio(width, height) ==
    IF height > 0 THEN (200 * width + height) \div (2 * height) ELSE 0

\* The result dict built from the locals.  The keys format, file_size_bytes and
\* file_size_kb are facts of the file alone and are left out.
BasicResult(img, locals) ==
    [dimensions |-> [width |-> img.width, height |-> img.height],
     color_mode |-> img.mode,
     aspect_ratio |-> AspectRatio(img.width, img.height),
     is_likely_text |-> locals.is_likely_text,
     dominant_color_type |-> locals.dominant_color_type,
     average_color_rgb |->
         IF locals.avg_color # None /\ locals.avg_color[1] # <<>>
         THEN locals.avg_color ELSE None,
     is_colorful |-> locals.is_colorful,
     brightness |-> locals.brightness,
     is_bright |-> locals.is_bright,
     is_dark |-> locals.is_dark,
     dominant_hue |-> locals.dominant_hue]

\* The outer try block that answers a failed Image.open with default statistics.
BasicTryBody_defaults(img, fail_at) ==
    IF ~img.readable
    THEN [raised |-> FALSE,
          value |-> [error |-> "cannot identify image file",
                     is_likely_text |-> FALSE, dominant_hue |-> "unknown"]]
    ELSE [raised |-> FALSE, value |-> BasicResult(img, ColorAnalysis(img, fail_at))]

\* The outer try block: Image.open raises for a file that is no readable image.
BasicTryBody(img, fail_at) ==
    IF ~img.readable THEN [raised |-> TRUE, exc |-> "cannot identify image file"]
    ELSE [raised |-> FALSE, value |-> BasicResult(img, ColorAnalysis(img, fail_at))]

\* analyze_image_basic without its outer except clause.
analyze_image_basic_uncaught(img, fail_at) == BasicTryBody(img, fail_at)

\* analyze_image_basic(image_path): except Exception as e: return {"error": str(e)}
analyze_image_basic(img, fail_at) ==
    LET r == BasicTryBody(img, fail_at) IN
    IF r.raised THEN [raised |-> FALSE, value |-> [error |-> r.exc]] ELSE r

----------------------------------------------------------------------------
(* The captioning model: load_vision_model and analyze_image_vision.  The  *)
(* three globals travel together as a record g.                            *)

DefaultModel == "Salesforce/blip-image-captioning-base"

ModelNames == {DefaultModel, "Salesforce/blip-image-captioning-large"}

\* What loading does when it is attempted: it succeeds, or one of
\* BlipProcessor.from_pretrained, BlipForConditionalGeneration.from_pretrained
\* and _vision_model.to(device) raises.
LoaderOutcomes == {"ok", "raise_processor", "raise_model", "raise_device"}

\* What processing the image and generating the caption does.
CaptionOutcomes == [raises : BOOLEAN, text : Texts]

NotLoaded == [processor |-> None, model |-> None, loaded |-> FALSE]

\* The try block of load_vision_model: the globals it leaves behind.
LoadTryBody(g, model_name, loader) ==
    CASE loader = "raise_processor" -> g
      [] loader = "raise_model" -> [g EXCEPT !.processor = Some(model_name)]
      [] loader = "raise_device" ->
            [g EXCEPT !.processor = Some(model_name), !.model = Some(model_name)]
      [] loader = "ok" ->
            [processor |-> Some(model_name), model |-> Some(model_name), loaded |-> TRUE]

\* load_vision_model without the "already loaded" test.
load_vision_model_reload(avail, g, model_name, loader) ==
    IF ~avail THEN [ret |-> FALSE, g |-> g, invoked |-> FALSE]
    ELSE [ret |-> loader = "ok", g |-> LoadTryBody(g, model_name, loader), invoked |-> TRUE]

\* load_vision_model(model_name): ret is the value returned, g the globals after
\* the call, invoked whether the loader (from_pretrained) was called.
load_vision_model(avail, g, model_name, loader) ==
    IF ~avail THEN [ret |-> FALSE, g |-> g, invoked |-> FALSE]
    ELSE IF g.loaded THEN [ret |-> TRUE, g |-> g, invoked |-> FALSE]
    ELSE [ret |-> loader = "ok", g |-> LoadTryBody(g, model_name, loader), invoked |-> TRUE]

\* The try block of analyze_image_vision, run with the globals g.
VisionTryBody(g, img, model_name, cap) ==
    IF ~img.readable THEN [raised |-> TRUE, exc |-> "cannot identify image file"]
    ELSE IF cap.raises THEN [raised |-> TRUE, exc |-> "RuntimeError"]
    ELSE [raised |-> FALSE,
          value |-> [vision_description |-> cap.text,
                     has_description |-> cap.text # <<>>,
                     model_used |-> model_name]]

\* analyze_image_vision(image_path, model_name).  Beside the returned dict (value):
\* the globals after the call, what load_vision_model returned and whether it
\* called the loader, and the model handle that produced the caption, if any.
analyze_image_vision(avail, g, img, model_name, loader, cap) ==
    LET l == load_vision_model(avail, g, model_name, loader)
        r == VisionTryBody(l.g, img, model_name, cap)
    IN IF ~l.ret
       THEN [raised |-> FALSE, g |-> l.g, load_ret |-> Some(l.ret), invoked |-> l.invoked,
             captioned_by |-> None,
             value |-> [vision_description |-> <<>>, error |-> "Vision model not available"]]
       ELSE IF r.raised
       THEN [raised |-> FALSE, g |-> l.g, load_ret |-> Some(l.ret), invoked |-> l.invoked,
             captioned_by |-> None,
             value |-> [vision_description |-> <<>>, error |-> r.exc]]
       ELSE [raised |-> FALSE, g |-> l.g, load_ret |-> Some(l.ret), invoked |-> l.invoked,
             captioned_by |-> l.g.model, value |-> r.value]

----------------------------------------------------------------------------
(* analyze_image_hybrid.  A clause of the description is a record: its kind,   *)
(* its wording and the values embedded in it.                                  *)

Clause(kind, text, arg) == [kind |-> kind, text |-> text, arg |-> arg]

EmptyDict == <<>>

Ellipsis == <<46, 46, 46>>

\* "Start with visual characteristics"
OrientationPart(basic_info) ==
    IF Has(basic_info, "dimensions")
    THEN LET dims == basic_info.dimensions
             aspect_ratio == Get(basic_info, "aspect_ratio", 0)
             orientation_desc ==
                 IF aspect_ratio > 200 THEN "wide, panoramic"
                 ELSE IF aspect_ratio < 60 THEN "tall, portrait-oriented"
                 ELSE "standard"
         IN <<Clause("orientation", orientation_desc, <<dims.width, dims.height>>)>>
    ELSE <<>>

\* The hue clause emitted for every hue but "unknown".
HuePart_mixed(basic_info) ==
    IF Has(basic_info, "dominant_hue") /\ basic_info.dominant_hue # "unknown"
    THEN <<Clause("hue", basic_info.dominant_hue, <<>>)>>
    ELSE <<>>

\* "Add color and visual characteristics"
HuePart(basic_info) ==
    IF Has(basic_info, "dominant_hue") /\ basic_info.dominant_hue # "unknown"
    THEN LET hue == basic_info.dominant_hue IN
         IF hue # "grayscale" /\ hue # "mixed"
         THEN <<Clause("hue", hue, <<>>)>>
         ELSE IF hue = "grayscale" THEN <<Clause("hue", "grayscale", <<>>)>>
         ELSE <<>>
    ELSE <<>>

ColorfulPart(basic_info) ==
    IF Has(basic_info, "is_colorful")
    THEN IF basic_info.is_colorful
         THEN <<Clause("colorful", "colorful with varied hues", <<>>)>>
         ELSE <<Clause("colorful", "monochromatic or muted", <<>>)>>
    ELSE <<>>

BrightnessPart(basic_info) ==
    IF Has(basic_info, "brightness") /\ basic_info.brightness # None
    THEN LET brightness == basic_info.brightness[1] IN
         IF Get(basic_info, "is_bright", FALSE)
         THEN <<Clause("brightness", "bright and well-lit", <<>>)>>
         ELSE IF Get(basic_info, "is_dark", FALSE)
         THEN <<Clause("brightness", "dark or dimly lit", <<>>)>>
         ELSE <<Clause("brightness", "moderate brightness", <<(brightness + 5) \div 10>>)>>
    ELSE <<>>

\* "Add content type analysis"
ContentPart(basic_info) ==
    IF Get(basic_info, "is_likely_text", FALSE)
    THEN <<Clause("content", "primarily text content", <<>>)>>
    ELSE <<Clause("content", "visual/graphical element", <<>>)>>

\* The OCR clause with a text of 200 characters cut as well.
OcrPart_inclusive(ocr_result) ==
    IF Get(ocr_result, "has_text", FALSE)
    THEN LET ocr_text == Get(ocr_result, "ocr_text", <<>>)
             ocr_preview == IF Len(ocr_text) >= OCR_PREVIEW_LEN
                            THEN SubSeq(ocr_text, 1, OCR_PREVIEW_LEN) \o Ellipsis
                            ELSE ocr_text
         IN IF ocr_text # <<>>
            THEN <<Clause("ocr", "contains the following text", ocr_preview)>>
            ELSE <<>>
    ELSE <<>>

\* "Add OCR text if found"
OcrPart(ocr_result) ==
    IF Get(ocr_result, "has_text", FALSE)
    THEN LET ocr_text == Get(ocr_result, "ocr_text", <<>>)
             ocr_preview == IF Len(ocr_text) > OCR_PREVIEW_LEN
                            THEN SubSeq(ocr_text, 1, OCR_PREVIEW_LEN) \o Ellipsis
                            ELSE ocr_text
         IN IF ocr_text # <<>>
            THEN <<Clause("ocr", "contains the following text", ocr_preview)>>
            ELSE <<>>
    ELSE <<>>

\* The caption clause without the notice for a caption that failed.
VisionPart_silent(use_vision, vision_result) ==
    IF use_vision /\ Get(vision_result, "has_description", FALSE)
    THEN LET vision_desc == Get(vision_result, "vision_description", <<>>) IN
         IF vision_desc # <<>>
         THEN <<Clause("caption", "Content description", vision_desc)>>
         ELSE <<>>
    ELSE <<>>

\* "Add vision model description if available"
VisionPart(use_vision, vision_result) ==
    IF use_vision /\ Get(vision_result, "has_description", FALSE)
    THEN LET vision_desc == Get(vision_result, "vision_description", <<>>) IN
         IF vision_desc # <<>>
         THEN <<Clause("caption", "Content description", vision_desc)>>
         ELSE <<>>
    ELSE IF use_vision /\ Get(vision_result, "error", "") # ""
    THEN <<Clause("caption_unavailable",
                  "(Vision model analysis was requested but unavailable)", <<>>)>>
    ELSE <<>>

FallbackDescription ==
    <<Clause("fallback", "Image analysis completed.", <<>>)>>

\* The description with the OCR clause appended before the statistics.
Description_ocr_first(basic_info, ocr_result, use_vision, vision_result) ==
    LET description_parts ==
            OcrPart(ocr_result)
            \o OrientationPart(basic_info) \o HuePart(basic_info)
            \o ColorfulPart(basic_info) \o BrightnessPart(basic_info)
            \o ContentPart(basic_info)
            \o VisionPart(use_vision, vision_result)
    IN IF description_parts # <<>> THEN description_parts ELSE FallbackDescription

\* The clauses in the order they are appended; ". ".join(parts) + "." keeps
\* that order, and the fallback sentence stands in for an empty list.
Description(basic_info, ocr_result, use_vision, vision_result) ==
    LET description_parts ==
            OrientationPart(basic_info) \o HuePart(basic_info)
            \o ColorfulPart(basic_info) \o BrightnessPart(basic_info)
            \o ContentPart(basic_info) \o OcrPart(ocr_result)
            \o VisionPart(use_vision, vision_result)
    IN IF description_parts # <<>> THEN description_parts ELSE FallbackDescription

\* A hybrid result in which a failed caption takes the statistics with it.
HybridResult_cascading(ocr_result, basic_info, use_vision, vision_result) ==
    [ocr_text |-> Get(ocr_result, "ocr_text", <<>>),
     basic_info |-> IF Has(vision_result, "error")
                    THEN [error |-> vision_result.error] ELSE basic_info,
     vision_description |->
         IF use_vision THEN Some(Get(vision_result, "vision_description", <<>>)) ELSE None,
     description |-> Description(basic_info, ocr_result, use_vision, vision_result),
     analysis_summary |->
         [has_text |-> Get(ocr_result, "has_text", FALSE),
          has_vision_description |->
              IF use_vision THEN Get(vision_result, "has_description", FALSE) ELSE FALSE,
          is_likely_text |-> Get(basic_info, "is_likely_text", FALSE)]]

\* A hybrid result whose caption field is the empty string when the caption is
\* disabled.
HybridResult_empty_caption(ocr_result, basic_info, use_vision, vision_result) ==
    [ocr_text |-> Get(ocr_result, "ocr_text", <<>>),
     basic_info |-> basic_info,
     vision_description |-> Some(Get(vision_result, "vision_description", <<>>)),
     description |-> Description(basic_info, ocr_result, use_vision, vision_result),
     analysis_summary |->
         [has_text |-> Get(ocr_result, "has_text", FALSE),
          has_vision_description |->
              IF use_vision THEN Get(vision_result, "has_description", FALSE) ELSE FALSE,
          is_likely_text |-> Get(basic_info, "is_likely_text", FALSE)]]

\* The dict analyze_image_hybrid returns.
HybridResult(ocr_result, basic_info, use_vision, vision_result) ==
    [ocr_text |-> Get(ocr_result, "ocr_text", <<>>),
     basic_info |-> basic_info,
     vision_description |->
         IF use_vision THEN Some(Get(vision_result, "vision_description", <<>>)) ELSE None,
     description |-> Description(basic_info, ocr_result, use_vision, vision_result),
     analysis_summary |->
         [has_text |-> Get(ocr_result, "has_text", FALSE),
          has_vision_description |->
              IF use_vision THEN Get(vision_result, "has_description", FALSE) ELSE FALSE,
          is_likely_text |-> Get(basic_info, "is_likely_text", FALSE)]]

\* vision_result = {} when use_vision is false: analyze_image_vision is not called.
NoVision(g) ==
    [raised |-> FALSE, g |-> g, load_ret |-> None, invoked |-> FALSE,
     captioned_by |-> None, value |-> EmptyDict]

\* The record of one hybrid call: its arguments (filled in by the caller), whether
\* an exception left the call (raised), the globals after it (cmd, g), whether the
\* loader was called and what load_vision_model returned (None when it was not
\* called), the locals ocr_result and vision_result and the dict returned (ret).
HybridCall ==
    [op |-> "", img |-> Unreadable, use_vision |-> FALSE, model_name |-> "",
     in |-> EmptyDict, raised |-> FALSE, cmd |-> "", g |-> NotLoaded,
     invoked |-> FALSE, load_ret |-> None, ocr_result |-> EmptyDict,
     ocr_ran |-> FALSE, vision_result |-> EmptyDict, ret |-> EmptyDict]

\* analyze_image_hybrid running the vision model whether it is requested or not.
analyze_image_hybrid_always_vision(avail, g, cmd, img, use_vision, model_name, in) ==
    LET o == analyze_image_ocr(cmd, img, in.env, in.ocr)
        b == analyze_image_basic(img, in.fail_at)
        v == analyze_image_vision(avail, g, img, model_name, in.loader, in.cap)
    IN [HybridCall EXCEPT !.cmd = o.cmd, !.g = v.g, !.invoked = v.invoked,
                          !.load_ret = v.load_ret,
                          !.ocr_result = o.value, !.ocr_ran = o.ran,
                          !.vision_result = v.value,
                          !.ret = HybridResult(o.value, b.value, use_vision, v.value)]

\* analyze_image_hybrid(image_path, use_vision, ocr_language, vision_model_name).
\* An exception of a sub-analysis that is not caught there ends the call.
analyze_image_hybrid(avail, g, cmd, img, use_vision, model_name, in) ==
    LET o == analyze_image_ocr(cmd, img, in.env, in.ocr)
        b == analyze_image_basic(img, in.fail_at)
        v == IF use_vision
             THEN analyze_image_vision(avail, g, img, model_name, in.loader, in.cap)
             ELSE NoVision(g)
        done == [HybridCall EXCEPT !.cmd = o.cmd, !.g = v.g, !.invoked = v.invoked,
                                   !.load_ret = v.load_ret]
    IN IF o.raised THEN [HybridCall EXCEPT !.raised = TRUE, !.cmd = cmd, !.g = g]
       ELSE IF b.raised THEN [HybridCall EXCEPT !.raised = TRUE, !.cmd = o.cmd, !.g = g]
       ELSE IF v.raised THEN [done EXCEPT !.raised = TRUE]
       ELSE [done EXCEPT !.ocr_result = o.value, !.ocr_ran = o.ran,
                         !.vision_result = v.value,
                         !.ret = HybridResult(o.value, b.value, use_vision, v.value)]

----------------------------------------------------------------------------
(* The PDF tools of src/src/server.py: files, documents and the helpers        *)
(* get_pdf_path_or_download and get_page_range.                                *)

\* Most temporary files created in one run of the model.
MaxTempFiles == 1

\* Largest 'start' or 'end' a caller passes; the documents have one or two pages.
MaxPageArg == 3

Min(a, b) == IF a <= b THEN a ELSE b
Max(a, b) == IF a >= b THEN a ELSE b

\* An image embedded in a page: fitz.Pixmap(doc, xref) yields its pixels, or
\* raises for an xref it cannot decode.
Embedded(img) == [ok |-> TRUE, img |-> img]
BrokenXref == [ok |-> FALSE, img |-> Unreadable]

\* What fitz.open finds in a file: a document of pages, or no PDF at all.
NotPdf == [pdf |-> FALSE]

ReportDoc ==
    [pdf |-> TRUE,
     pages |-> << [text |-> <<97>>,
                   images |-> <<Embedded(TinyImage), Embedded(SmallImage),
                                BrokenXref, Embedded(PageImage)>>],
                  [text |-> <<>>, images |-> <<Embedded(EdgeImage)>>] >>]

ScanDoc == [pdf |-> TRUE, pages |-> << [text |-> <<>>, images |-> <<Embedded(PageImage)>>] >>]

\* The caller's files, and what file_path may name.
UserFiles == {"report.pdf", "SCAN.PDF", "notes.txt", "broken.pdf"}
FilePaths == UserFiles \cup {"missing.pdf"}

\* Path(file_path).suffix
PathSuffix(path) ==
    CASE path = "SCAN.PDF" -> ".PDF"
      [] path = "notes.txt" -> ".txt"
      [] OTHER -> ".pdf"

\* str.lower() of a suffix
Lower(suffix) == IF suffix = ".PDF" THEN ".pdf" ELSE suffix

FileContent(path) ==
    CASE path = "report.pdf" -> ReportDoc
      [] path = "SCAN.PDF" -> ScanDoc
      [] OTHER -> NotPdf

\* The URLs a caller passes, and what the server behind each one sends.
Urls == {"https://host/report.pdf", "https://host/page.html"}

UrlContent(url) == IF url = "https://host/report.pdf" THEN ReportDoc ELSE NotPdf

\* What the network and the disk do during one call: the download succeeds or
\* raises (net), the temporary file is created and written, or creating or
\* writing it raises (store), unlinking the temporary file succeeds or raises
\* (unlink_ok), and processing page fail_page raises (0: no page does).
IoOutcomes ==
    [net : {"ok", "http_error"}, store : {"ok", "create_fails", "write_fails"},
     unlink_ok : BOOLEAN, fail_page : 0..2]

\* A path: a caller's file by its name, a temporary file by its number.
UserPath(name) == [temp |-> FALSE, name |-> name]
TempPath(id) == [temp |-> TRUE, id |-> id]

\* get_pdf_path_or_download that takes the url whenever one is given.
get_pdf_path_or_download_url_first(file_path, url, io, count, ufiles) ==
    IF url # None
    THEN [raised |-> FALSE, exc |-> "", downloaded |-> TRUE,
          created |-> Some(count + 1), path |-> Some(TempPath(count + 1)),
          is_temp |-> TRUE, content |-> UrlContent(url[1])]
    ELSE IF file_path # None /\ file_path[1] \in ufiles
                             /\ Lower(PathSuffix(file_path[1])) = ".pdf"
    THEN [raised |-> FALSE, exc |-> "", downloaded |-> FALSE, created |-> None,
          path |-> Some(UserPath(file_path[1])), is_temp |-> FALSE,
          content |-> FileContent(file_path[1])]
    ELSE [raised |-> TRUE, exc |-> "invalid arguments", downloaded |-> FALSE,
          created |-> None, path |-> None, is_temp |-> FALSE, content |-> NotPdf]

\* get_pdf_path_or_download(file_path, url), called when count temporary files
\* have been created and the caller's files ufiles exist.  It returns (path,
\* is_temp) or raises; downloaded tells whether download_pdf_from_url was
\* called, created the temporary file made by NamedTemporaryFile(delete=False),
\* if any, and content what the file at path holds.
get_pdf_path_or_download(file_path, url, io, count, ufiles) ==
    LET quiet == [raised |-> TRUE, exc |-> "", downloaded |-> FALSE, created |-> None,
                  path |-> None, is_temp |-> FALSE, content |-> NotPdf]
    IN IF file_path # None /\ url # None
       THEN [quiet EXCEPT !.exc = "Cannot specify both file_path and url"]
       ELSE IF url # None
       THEN IF io.net # "ok"
            THEN [quiet EXCEPT !.exc = "HTTP error downloading PDF", !.downloaded = TRUE]
            ELSE IF io.store = "create_fails"
            THEN [quiet EXCEPT !.exc = "OSError", !.downloaded = TRUE]
            ELSE IF io.store = "write_fails"
            THEN [quiet EXCEPT !.exc = "OSError", !.downloaded = TRUE,
                               !.created = Some(count + 1)]
            ELSE [raised |-> FALSE, exc |-> "", downloaded |-> TRUE,
                  created |-> Some(count + 1), path |-> Some(TempPath(count + 1)),
                  is_temp |-> TRUE, content |-> UrlContent(url[1])]
       ELSE IF file_path # None
       THEN IF file_path[1] \notin ufiles
            THEN [quiet EXCEPT !.exc = "File not found"]
            ELSE IF Lower(PathSuffix(file_path[1])) # ".pdf"
            THEN [quiet EXCEPT !.exc = "File is not a PDF"]
            ELSE [raised |-> FALSE, exc |-> "", downloaded |-> FALSE, created |-> None,
                  path |-> Some(UserPath(file_path[1])), is_temp |-> FALSE,
                  content |-> FileContent(file_path[1])]
       ELSE [quiet EXCEPT !.exc = "Either file_path or url must be provided"]

\* The page_range arguments: None, or a dict with 'start', 'end', both or neither.
PageRanges ==
    {None} \cup [{"start"} -> 0..MaxPageArg] \cup [{"end"} -> 0..MaxPageArg]
    \cup [{"start", "end"} -> 0..MaxPageArg]

\* get_page_range without the lower limit start on end.
get_page_range_unordered(total_pages, page_range) ==
    IF page_range = None THEN <<0, total_pages - 1>>
    ELSE LET start == Max(0, Min(Get(page_range, "start", 1) - 1, total_pages - 1))
             end == Min(Get(page_range, "end", total_pages) - 1, total_pages - 1)
         IN <<start, end>>

\* get_page_range(doc, page_range), with total_pages = len(doc).  The empty dict
\* {} is written like None here; the code gives both the same range.
get_page_range(total_pages, page_range) ==
    IF page_range = None THEN <<0, total_pages - 1>>
    ELSE LET start0 == Get(page_range, "start", 1) - 1
             end0 == Get(page_range, "end", total_pages) - 1
             start == Max(0, Min(start0, total_pages - 1))
             end == Max(start, Min(end0, total_pages - 1))
         IN <<start, end>>

----------------------------------------------------------------------------
(* The tools.  Each one is get_pdf_path_or_download, fitz.open, a loop over    *)
(* pages, the result, and the removal of the temporary file; whatever is       *)
(* raised on the way is caught and answered with a failure result.             *)

Newline == <<10>>

\* The files that exist: the caller's and the temporary ones, as paths.
Files(ufiles, temps) == {UserPath(n) : n \in ufiles} \cup {TempPath(i) : i \in temps}
UserFilesOf(files) == {p.name : p \in {q \in files : ~q.temp}}
TempFilesOf(files) == {p.id : p \in {q \in files : q.temp}}

\* The files that exist once the temporary file created was made.
WithCreated(files, created) ==
    IF created = None THEN files ELSE files \cup {TempPath(created[1])}

\* "if temp_file and temp_file.exists(): try: temp_file.unlink() except: ..."
Cleanup(temp_file, files, io) ==
    IF temp_file # None /\ temp_file[1] \in files /\ io.unlink_ok
    THEN files \ {temp_file[1]} ELSE files

\* The dict of the except clause of a tool.  "str(path) if not is_temp else
\* None" and "url if url else None" are the arguments themselves: a call that
\* gets as far as a result was given exactly one of them.
Failure(exc, file_path, url) ==
    [success |-> FALSE, error |-> exc, file_path |-> file_path, url |-> url]

\* The record of one tool call: its arguments (filled in by the caller of the
\* operator), whether an exception left the tool, the dict returned, the
\* files existing and the number of temporary files created when it returns, whether it
\* called download_pdf_from_url, the temporary file it created, whether the
\* document opened, the page range it computed and the pages it visited
\* (0-based), and the analyser's globals after the call.
ToolCall ==
    [op |-> "", file_path |-> None, url |-> None, page_range |-> None, io |-> EmptyDict,
     analyze_images |-> FALSE, use_vision |-> FALSE, in |-> EmptyDict,
     raised |-> FALSE, ret |-> EmptyDict, files |-> {}, count |-> 0,
     downloaded |-> FALSE, created |-> None, opened |-> FALSE, total_pages |-> 0,
     range |-> None, visited |-> <<>>, cmd |-> "", g |-> NotLoaded]

\* The pages range(start, end + 1) visits, 0-based, in order.
PagesOf(range) == [i \in 1..(range[2] - range[1] + 1) |-> range[1] + i - 1]

\* The loop over the pages raises at page fail_page (1-based) if it visits it.
LoopRaises(visited, io) == \E i \in 1..Len(visited) : visited[i] + 1 = io.fail_page

\* f"{start_page + 1}-{end_page + 1}"
PagesProcessed(range) == <<range[1] + 1, range[2] + 1>>

RECURSIVE Concat(_)
Concat(seqs) == IF seqs = <<>> THEN <<>> ELSE Head(seqs) \o Concat(Tail(seqs))

\* The range of pages a tool visits: get_page_range for a tool that takes a
\* page_range (ranged), range(len(doc)) for the others.
RangeOf(doc, page_range, ranged) ==
    IF ranged THEN get_page_range(Len(doc.pages), page_range)
    ELSE <<0, Len(doc.pages) - 1>>

\* The call once the document is open: the loop raises and the failure dict is
\* returned, or the loop ends and ret is left for the tool to build.  In both
\* cases the temporary file is removed.
Opened(base, doc, range, temp_file, file_path, url, io) ==
    [base EXCEPT !.opened = TRUE, !.total_pages = Len(doc.pages),
                 !.range = Some(range), !.visited = PagesOf(range),
                 !.files = Cleanup(temp_file, base.files, io),
                 !.ret = IF LoopRaises(PagesOf(range), io)
                         THEN Failure("page error", file_path, url) ELSE EmptyDict]

\* The frame shared by the tools: path, open, loop, cleanup, given what
\* get_pdf_path_or_download did (r), the files that existed and the number of
\* temporary files created before the call.
FrameOf(r, file_path, url, page_range, ranged, io, files, count) ==
    LET temp_file == IF r.is_temp THEN r.path ELSE None
        base == [ToolCall EXCEPT !.files = WithCreated(files, r.created),
                                 !.count = IF r.created = None THEN count
                                           ELSE r.created[1],
                                 !.downloaded = r.downloaded, !.created = r.created]
    IN IF r.raised
       THEN [base EXCEPT !.ret = Failure(r.exc, file_path, url)]
       ELSE IF ~r.content.pdf
       THEN [base EXCEPT !.files = Cleanup(temp_file, base.files, io),
                         !.ret = Failure("cannot open document", file_path, url)]
       ELSE Opened(base, r.content, RangeOf(r.content, page_range, ranged),
                   temp_file, file_path, url, io)

ToolFrame(file_path, url, page_range, ranged, io, files, count) ==
    FrameOf(get_pdf_path_or_download(file_path, url, io, count, UserFilesOf(files)),
            file_path, url, page_range, ranged, io, files, count)

\* The tool reached the end of its loop: it builds its result.
Completes(frame, io) == frame.opened /\ ~LoopRaises(frame.visited, io)

\* The document the tool reads.
DocOf(file_path, url, io, files, count) ==
    get_pdf_path_or_download(file_path, url, io, count, UserFilesOf(files)).content

\* The call with the dict the tool returns when its loop ended.
Returning(frame, io, result) ==
    IF Completes(frame, io) THEN [frame EXCEPT !.ret = result] ELSE frame

\* pages_text of read_pdf_text
PagesText(doc, visited) ==
    [i \in 1..Len(visited) |->
        [page_number |-> visited[i] + 1,
         text |-> doc.pages[visited[i] + 1].text,
         word_count |-> WordCount(doc.pages[visited[i] + 1].text)]]

\* total_text: "total_text += page_text + '\n'"
TotalText(doc, visited) ==
    Concat([i \in 1..Len(visited) |-> doc.pages[visited[i] + 1].text \o Newline])

\* The result dict of read_pdf_text.
TextResult(frame, doc, total_text, file_path, url) ==
    [success |-> TRUE, file_path |-> file_path, url |-> url,
     pages_processed |-> PagesProcessed(frame.range[1]),
     total_pages |-> Len(doc.pages),
     pages_text |-> PagesText(doc, frame.visited),
     combined_text |-> Strip(total_text),
     total_word_count |-> WordCount(total_text),
     total_character_count |-> Len(total_text)]

\* read_pdf_text(file_path, url, page_range)
read_pdf_text(file_path, url, page_range, io, files, count) ==
    Returning(ToolFrame(file_path, url, page_range, TRUE, io, files, count), io,
              TextResult(ToolFrame(file_path, url, page_range, TRUE, io, files, count),
                         DocOf(file_path, url, io, files, count),
                         TotalText(DocOf(file_path, url, io, files, count),
                                   ToolFrame(file_path, url, page_range, TRUE, io, files,
                                             count).visited),
                         file_path, url))

\* page_info of get_pdf_info
PageInfo(doc) ==
    [i \in 1..Len(doc.pages) |->
        [page_number |-> i,
         images_count |-> Len(doc.pages[i].images),
         text_length |-> Len(doc.pages[i].text),
         has_text |-> Strip(doc.pages[i].text) # <<>>]]

\* The result dict of get_pdf_info.  file_info and pdf_metadata are facts of
\* the file alone and are left out.
InfoResult(doc, page_info, file_path, url) ==
    [success |-> TRUE, file_path |-> file_path, url |-> url,
     document_stats |->
         [total_pages |-> Len(doc.pages),
          total_images |-> SumSeq([i \in 1..Len(page_info) |-> page_info[i].images_count]),
          pages_with_text |->
              Cardinality({i \in 1..Len(page_info) : page_info[i].has_text}),
          pages_with_images |->
              Cardinality({i \in 1..Len(page_info) : page_info[i].images_count > 0})],
     page_details |-> page_info]

\* get_pdf_info(file_path, url): every page is visited.
get_pdf_info(file_path, url, io, files, count) ==
    Returning(ToolFrame(file_path, url, None, FALSE, io, files, count), io,
              InfoResult(DocOf(file_path, url, io, files, count),
                         PageInfo(DocOf(file_path, url, io, files, count)),
                         file_path, url))

\* round(total / len(doc), 2), in hundredths.
AvgPerPage(total, pages) == (200 * total + pages) \div (2 * pages)

\* "Categorize page content"
ContentType(has_text, has_images) ==
    IF has_text /\ has_images THEN "mixed"
    ELSE IF has_text THEN "text_only"
    ELSE IF has_images THEN "images_only"
    ELSE "empty"

\* The number of the pages of a content type.
PagesOfType(page_details, content_type) ==
    Cardinality({i \in 1..Len(page_details) : page_details[i].content_type = content_type})

\* page_details of analyze_pdf_structure.  Text blocks, page dimensions and
\* rotation are left out.
PageDetails(doc) ==
    [i \in 1..Len(doc.pages) |->
        [page_number |-> i,
         content_type |-> ContentType(Strip(doc.pages[i].text) # <<>>,
                                      Len(doc.pages[i].images) > 0),
         image_count |-> Len(doc.pages[i].images),
         text_length |-> Len(Strip(doc.pages[i].text))]]

\* The result dict of analyze_pdf_structure.
StructureResult(doc, page_details, file_path, url) ==
    [success |-> TRUE, file_path |-> file_path, url |-> url,
     document_structure |-> [total_pages |-> Len(doc.pages)],
     content_analysis |->
         [pages_with_text |->
              Cardinality({i \in 1..Len(page_details) : page_details[i].text_length > 0}),
          pages_with_images |->
              Cardinality({i \in 1..Len(page_details) : page_details[i].image_count > 0}),
          pages_text_only |-> PagesOfType(page_details, "text_only"),
          pages_images_only |-> PagesOfType(page_details, "images_only"),
          pages_mixed_content |-> PagesOfType(page_details, "mixed"),
          total_images |->
              SumSeq([i \in 1..Len(page_details) |-> page_details[i].image_count])],
     page_details |-> page_details,
     summary |->
         [content_distribution |->
              [text_only_pages |-> PagesOfType(page_details, "text_only"),
               images_only_pages |-> PagesOfType(page_details, "images_only"),
               mixed_content_pages |-> PagesOfType(page_details, "mixed"),
               empty_pages |-> Len(doc.pages)
                               - (PagesOfType(page_details, "text_only")
                                  + PagesOfType(page_details, "images_only")
                                  + PagesOfType(page_details, "mixed"))],
          avg_images_per_page |->
              AvgPerPage(SumSeq([i \in 1..Len(page_details) |->
                                    page_details[i].image_count]),
                         Len(doc.pages))]]

\* analyze_pdf_structure(file_path, url): every page is visited.
analyze_pdf_structure(file_path, url, io, files, count) ==
    Returning(ToolFrame(file_path, url, None, FALSE, io, files, count), io,
              StructureResult(DocOf(file_path, url, io, files, count),
                              PageDetails(DocOf(file_path, url, io, files, count)),
                              file_path, url))

----------------------------------------------------------------------------
(* extract_pdf_images and read_pdf_with_ocr: the loops over the images of the  *)
(* pages.                                                                      *)

\* "if pix.width < 10 or pix.height < 10" of extract_pdf_images
MIN_IMAGE_SIZE == 10

\* "if pix.width < 50 or pix.height < 50" of read_pdf_with_ocr
OCR_IMAGE_MIN_SIZE == 50

\* "high" if len(ocr_text) > 10 else "low"
CONFIDENCE_LEN == 10

\* The images of the pages visited, in the order of the two loops:
\* page_num is 0-based, img_index the index of enumerate(image_list).
PageItems(doc, visited) ==
    Concat([i \in 1..Len(visited) |->
               [j \in 1..Len(doc.pages[visited[i] + 1].images) |->
                   [page_num |-> visited[i], img_index |-> j - 1,
                    emb |-> doc.pages[visited[i] + 1].images[j]]]])

\* The pages visited before the loop raises.
VisitedBefore(visited, io) ==
    LET hit == {i \in 1..Len(visited) : visited[i] + 1 = io.fail_page}
    IN IF hit = {} THEN visited
       ELSE SubSeq(visited, 1, (CHOOSE i \in hit : \A k \in hit : i <= k) - 1)

\* What the analyses of one call of extract_pdf_images meet: the answers of
\* the environment to every image (in), and the image_index whose colour
\* analysis fails at its first step (0: none).
AnalysisIn(opts, image_index) ==
    [opts.in EXCEPT !.fail_at = IF image_index = opts.fail_index THEN "convert" ELSE "none"]

\* "if pix.width < 10 or pix.height < 10" never taken.
TooSmall_never(pix) == FALSE

\* "Skip if image is too small"
TooSmall(pix) == pix.width < MIN_IMAGE_SIZE \/ pix.height < MIN_IMAGE_SIZE

\* "image_info['analysis'] = analysis" or, when the analysis raised, the error.
Analysed(image_info, a) ==
    IF a.raised
    THEN image_info @@ [analysis |-> [error |-> "analysis error"],
                        description |-> "Image analysis failed"]
    ELSE image_info @@ [analysis |-> a.ret, description |-> a.ret.description]

\* extracted_images and the analyser's globals after the analysis a of an image.
WithAnalysed(acc, image_info, a) ==
    [images |-> Append(acc.images, Analysed(image_info, a)), cmd |-> a.cmd, g |-> a.g]

\* One pass of the try block of lines 218-276 over an image.  acc holds
\* extracted_images and the analyser's globals.
ExtractImage(it, acc, opts) ==
    IF ~it.emb.ok THEN acc
    ELSE IF TooSmall(it.emb.img) THEN acc
    ELSE LET image_info == [page_number |-> it.page_num + 1,
                            image_index |-> it.img_index + 1,
                            width |-> it.emb.img.width,
                            height |-> it.emb.img.height]
         IN IF opts.analyze_images
            THEN WithAnalysed(acc, image_info,
                              analyze_image_hybrid(opts.avail, acc.g, acc.cmd, it.emb.img,
                                                   opts.use_vision, DefaultModel,
                                                   AnalysisIn(opts, it.img_index + 1)))
            ELSE [acc EXCEPT !.images = Append(acc.images, image_info)]

\* The two loops of lines 213-276.
RECURSIVE ExtractLoop(_, _, _)
ExtractLoop(items, acc, opts) ==
    IF items = <<>> THEN acc
    ELSE ExtractLoop(Tail(items), ExtractImage(Head(items), acc, opts), opts)

\* "sum(1 for img in extracted_images if img.get('analysis', {})
\*  .get('analysis_summary', {}).get('has_text', False))"
ImageHasText(image_info) ==
    /\ Has(image_info, "analysis")
    /\ Has(image_info.analysis, "analysis_summary")
    /\ Get(image_info.analysis.analysis_summary, "has_text", FALSE)

\* The result dict of extract_pdf_images.  The directory and the PNG files it
\* writes (filename, path, size_bytes) are left out.
ImagesResult(frame, extracted_images, file_path, url) ==
    [success |-> TRUE, file_path |-> file_path, url |-> url,
     pages_processed |-> PagesProcessed(frame.range[1]),
     images_extracted |-> Len(extracted_images),
     images |-> extracted_images,
     summary |->
         [total_images |-> Len(extracted_images),
          images_with_text |->
              Cardinality({i \in 1..Len(extracted_images) :
                              ImageHasText(extracted_images[i])}),
          images_analyzed |->
              Cardinality({i \in 1..Len(extracted_images) :
                              Has(extracted_images[i], "analysis")})]]

\* The call with the analyser's globals as the loops left them (done).
ImagesReturn(frame, done, file_path, url, io) ==
    Returning([frame EXCEPT !.cmd = done.cmd, !.g = done.g], io,
              ImagesResult(frame, done.images, file_path, url))

\* The loops of the call, which stop at the page that raises.
ImagesLoops(frame, doc, start, opts, io) ==
    IF frame.opened
    THEN ExtractLoop(PageItems(doc, VisitedBefore(frame.visited, io)), start, opts)
    ELSE start

ImagesWalk(frame, doc, start, opts, file_path, url, io) ==
    ImagesReturn(frame, ImagesLoops(frame, doc, start, opts, io), file_path, url, io)

\* extract_pdf_images(file_path, url, output_dir, page_range, analyze_images,
\* use_vision_model, ocr_language).  opts holds analyze_images, use_vision, the
\* import flag avail and what the analyses meet; cmd and g are the analyser's
\* globals when the tool is called.
extract_pdf_images(file_path, url, page_range, opts, io, files, count, cmd, g) ==
    ImagesWalk(ToolFrame(file_path, url, page_range, TRUE, io, files, count),
               DocOf(file_path, url, io, files, count),
               [images |-> <<>>, cmd |-> cmd, g |-> g], opts, file_path, url, io)

\* "\n".join(texts)
RECURSIVE JoinLines(_)
JoinLines(texts) ==
    IF texts = <<>> THEN <<>>
    ELSE IF Len(texts) = 1 THEN texts[1]
    ELSE Head(texts) \o Newline \o JoinLines(Tail(texts))

\* The try block of lines 358-394 over one image: the entry it appends to
\* image_texts, if any.  ocr is what pytesseract.image_to_string meets.
OcrImage(emb, image_index, ocr) ==
    IF ~emb.ok THEN <<>>
    ELSE IF emb.img.width < OCR_IMAGE_MIN_SIZE \/ emb.img.height < OCR_IMAGE_MIN_SIZE
    THEN <<>>
    ELSE IF ocr.raises THEN <<>>
    ELSE IF Strip(ocr.text) = <<>> THEN <<>>
    ELSE << [image_index |-> image_index, ocr_text |-> Strip(ocr.text),
             confidence |-> IF Len(Strip(ocr.text)) > CONFIDENCE_LEN
                            THEN "high" ELSE "low"] >>

\* image_texts of a page.
OcrLoop(images, ocr) == Concat([j \in 1..Len(images) |-> OcrImage(images[j], j, ocr)])

\* page_ocr_text: "'\n'.join([img['ocr_text'] for img in image_texts])"
OcrTextOf(image_texts) == JoinLines([k \in 1..Len(image_texts) |-> image_texts[k].ocr_text])

\* page_data of one page.
PageData(page_number, page_text, image_texts, page_ocr_text) ==
    [page_number |-> page_number,
     text |-> page_text,
     ocr_text |-> page_ocr_text,
     images_with_text |-> image_texts,
     combined_text |-> Strip(page_text \o Newline \o page_ocr_text),
     text_word_count |-> WordCount(page_text),
     ocr_word_count |-> WordCount(page_ocr_text)]

\* pages_data of read_pdf_with_ocr
PagesData(doc, visited, ocr) ==
    [i \in 1..Len(visited) |->
        PageData(visited[i] + 1, doc.pages[visited[i] + 1].text,
                 OcrLoop(doc.pages[visited[i] + 1].images, ocr),
                 OcrTextOf(OcrLoop(doc.pages[visited[i] + 1].images, ocr)))]

\* total_ocr_text: "total_ocr_text += page_ocr_text + '\n'"
TotalOcrText(pages_data) ==
    Concat([i \in 1..Len(pages_data) |-> pages_data[i].ocr_text \o Newline])

\* The result dict of read_pdf_with_ocr.
OcrResult(frame, doc, pages_data, total_text, total_ocr_text, combined_all_text, file_path, url) ==
    [success |-> TRUE, file_path |-> file_path, url |-> url,
     pages_processed |-> PagesProcessed(frame.range[1]),
     total_pages |-> Len(doc.pages),
     pages_data |-> pages_data,
     summary |->
         [total_text_word_count |-> WordCount(total_text),
          total_ocr_word_count |-> WordCount(total_ocr_text),
          combined_word_count |-> WordCount(combined_all_text),
          combined_character_count |-> Len(combined_all_text),
          images_processed |-> SumSeq([i \in 1..Len(pages_data) |->
                                          Len(pages_data[i].images_with_text)])],
     combined_text |-> Strip(total_text),
     combined_ocr_text |-> Strip(total_ocr_text),
     all_text_combined |-> combined_all_text]

OcrReturn(frame, doc, ocr, file_path, url, io) ==
    Returning(frame, io,
              OcrResult(frame, doc, PagesData(doc, frame.visited, ocr),
                        TotalText(doc, frame.visited),
                        TotalOcrText(PagesData(doc, frame.visited, ocr)),
                        Strip(TotalText(doc, frame.visited) \o Newline
                              \o TotalOcrText(PagesData(doc, frame.visited, ocr))),
                        file_path, url))

\* read_pdf_with_ocr(file_path, url, page_range, ocr_language)
read_pdf_with_ocr(file_path, url, page_range, ocr, io, files, count) ==
    OcrReturn(ToolFrame(file_path, url, page_range, TRUE, io, files, count),
              DocOf(file_path, url, io, files, count), ocr, file_path, url, io)

----------------------------------------------------------------------------
(* The process *)

Globals ==
    [processor |-> vision_processor, model |-> vision_model, loaded |-> vision_model_loaded]

\* Module import: Tesseract is auto-configured when it is found, the optional
\* vision dependencies are importable or not, and no model is loaded.
Init ==
    /\ VISION_MODEL_AVAILABLE \in BOOLEAN
    /\ vision_processor = None
    /\ vision_model = None
    /\ vision_model_loaded = FALSE
    /\ tesseract_cmd \in {"", TessPath}
    /\ load_failed = FALSE
    /\ load_succeeded = FALSE
    /\ call = NoCall
    /\ user_files = UserFiles
    /\ temp_files = {}
    /\ temp_count = 0

\* The outcomes a call can meet.  An answer the call never asks for is fixed, so
\* that every choice listed is a different run of the code.
NoText == [raises |-> FALSE, text |-> <<>>]

EnvsAsked(cmd) ==
    {e \in TessEnvs :
        /\ cmd = "" => ~e.cmd_exists
        /\ (cmd # "" /\ e.cmd_exists /\ e.version_ok) => ~e.found
        /\ (~(cmd # "" /\ e.cmd_exists) /\ ~e.found) => ~e.version_ok
        /\ e.retry_ok => (~e.version_ok /\ e.found)}

OcrAsked(cmd, img, env) ==
    IF analyze_image_ocr(cmd, img, env, NoText).ran
    THEN {o \in OcrOutcomes : o.raises => o.text = <<>>}
    ELSE {NoText}

FailuresAsked(img) == IF img.readable THEN FailSteps ELSE {"none"}

LoadersAsked(avail, g) == IF avail /\ ~g.loaded THEN LoaderOutcomes ELSE {"ok"}

CaptionsAsked(avail, g, img, loader) ==
    IF img.readable /\ load_vision_model(avail, g, DefaultModel, loader).ret
    THEN {c \in CaptionOutcomes : c.raises => c.text = <<>>}
    ELSE {NoText}

SetGlobals(g) ==
    /\ vision_processor' = g.processor
    /\ vision_model' = g.model
    /\ vision_model_loaded' = g.loaded

LoadVisionModel ==
    /\ call = NoCall
    /\ \E model_name \in ModelNames :
       \E loader \in LoadersAsked(VISION_MODEL_AVAILABLE, Globals) :
          LET r == load_vision_model(VISION_MODEL_AVAILABLE, Globals, model_name, loader) IN
          /\ SetGlobals(r.g)
          /\ load_failed' = (load_failed \/ ~r.ret)
          /\ load_succeeded' = (load_succeeded \/ r.ret)
          /\ call' = [op |-> "load_vision_model", model_name |-> model_name,
                      load_ret |-> Some(r.ret), invoked |-> r.invoked]
    /\ UNCHANGED <<VISION_MODEL_AVAILABLE, tesseract_cmd>>
    /\ UNCHANGED files_vars

AnalyzeImageVision ==
    /\ call = NoCall
    /\ \E img \in Images, model_name \in ModelNames :
       \E loader \in LoadersAsked(VISION_MODEL_AVAILABLE, Globals) :
       \E cap \in CaptionsAsked(VISION_MODEL_AVAILABLE, Globals, img, loader) :
          LET r == analyze_image_vision(VISION_MODEL_AVAILABLE, Globals, img,
                                        model_name, loader, cap) IN
          /\ SetGlobals(r.g)
          /\ load_failed' = (load_failed \/ r.load_ret = Some(FALSE))
          /\ load_succeeded' = (load_succeeded \/ r.load_ret = Some(TRUE))
          /\ call' = [op |-> "analyze_image_vision", img |-> img,
                      model_name |-> model_name, raised |-> r.raised,
                      load_ret |-> r.load_ret, invoked |-> r.invoked,
                      captioned_by |-> r.captioned_by, ret |-> r.value]
    /\ UNCHANGED <<VISION_MODEL_AVAILABLE, tesseract_cmd>>
    /\ UNCHANGED files_vars

AnalyzeImageOcr ==
    /\ call = NoCall
    /\ \E img \in Images :
       \E env \in EnvsAsked(tesseract_cmd) :
       \E ocr \in OcrAsked(tesseract_cmd, img, env) :
          LET r == analyze_image_ocr(tesseract_cmd, img, env, ocr) IN
          /\ tesseract_cmd' = r.cmd
          /\ call' = [op |-> "analyze_image_ocr", img |-> img, env |-> env,
                      raised |-> r.raised, ran |-> r.ran, ret |-> r.value]
    /\ UNCHANGED <<VISION_MODEL_AVAILABLE, vision_processor, vision_model,
                   vision_model_loaded, load_failed, load_succeeded>>
    /\ UNCHANGED files_vars

AnalyzeImageBasic ==
    /\ call = NoCall
    /\ \E img \in Images :
       \E fail_at \in FailuresAsked(img) :
          LET r == analyze_image_basic(img, fail_at) IN
          call' = [op |-> "analyze_image_basic", img |-> img, fail_at |-> fail_at,
                   raised |-> r.raised,
                   ret |-> IF r.raised THEN EmptyDict ELSE r.value]
    /\ UNCHANGED <<VISION_MODEL_AVAILABLE, vision_processor, vision_model,
                   vision_model_loaded, tesseract_cmd, load_failed, load_succeeded>>
    /\ UNCHANGED files_vars

AnalyzeImageHybrid ==
    /\ call = NoCall
    /\ \E img \in Images, use_vision \in BOOLEAN :
       \E model_name \in IF use_vision THEN ModelNames ELSE {DefaultModel} :
       \E fail_at \in FailuresAsked(img) :
       \E env \in EnvsAsked(tesseract_cmd) :
       \E ocr \in OcrAsked(tesseract_cmd, img, env) :
       \E loader \in IF use_vision THEN LoadersAsked(VISION_MODEL_AVAILABLE, Globals)
                     ELSE {"ok"} :
       \E cap \in IF use_vision
                  THEN CaptionsAsked(VISION_MODEL_AVAILABLE, Globals, img, loader)
                  ELSE {NoText} :
       \E in \in {[fail_at |-> fail_at, env |-> env, ocr |-> ocr,
                   loader |-> loader, cap |-> cap]} :
       \E r \in {analyze_image_hybrid(VISION_MODEL_AVAILABLE, Globals, tesseract_cmd,
                                      img, use_vision, model_name, in)} :
          /\ SetGlobals(r.g)
          /\ tesseract_cmd' = r.cmd
          /\ load_failed' = (load_failed \/ r.load_ret = Some(FALSE))
          /\ load_succeeded' = (load_succeeded \/ r.load_ret = Some(TRUE))
          /\ call' = [r EXCEPT !.op = "analyze_image_hybrid", !.img = img,
                               !.use_vision = use_vision,
                               !.model_name = model_name, !.in = in]
    /\ UNCHANGED VISION_MODEL_AVAILABLE
    /\ UNCHANGED files_vars

\* The caller takes the result; the process is idle again.
Return ==
    /\ call # NoCall
    /\ call' = NoCall
    /\ UNCHANGED <<VISION_MODEL_AVAILABLE, vision_processor, vision_model,
                   vision_model_loaded, tesseract_cmd, load_failed, load_succeeded>>
    /\ UNCHANGED files_vars

\* What a tool call can meet on its way, for the arguments it is given: an
\* answer the call never asks for is fixed.
IoAsked(file_path, url) ==
    {io \in IoOutcomes :
        LET dl == url # None /\ file_path = None
            r == get_pdf_path_or_download(file_path, url, io, 0, user_files)
        IN /\ ~dl => io.net = "ok"
           /\ ~(dl /\ io.net = "ok") => io.store = "ok"
           /\ ~r.is_temp => io.unlink_ok
           /\ io.fail_page <= (IF r.raised \/ ~r.content.pdf THEN 0
                                ELSE Len(r.content.pages))}

FilePathArgs == {None} \cup {Some(f) : f \in FilePaths}
UrlArgs == {None} \cup {Some(u) : u \in Urls}

\* The page ranges the image tools are called with.
ImagePageRanges == {None, [start |-> 1, end |-> 1], [start |-> 2]}

\* The file system after a tool call, and the call's record.
ToolReturns(r, op, file_path, url, io) ==
    /\ r.count <= MaxTempFiles
    /\ user_files' = UserFilesOf(r.files)
    /\ temp_files' = TempFilesOf(r.files)
    /\ temp_count' = r.count
    /\ call' = [r EXCEPT !.op = op, !.file_path = file_path, !.url = url, !.io = io]

AnalyzerUnchanged ==
    UNCHANGED <<VISION_MODEL_AVAILABLE, vision_processor, vision_model,
                vision_model_loaded, tesseract_cmd, load_failed, load_succeeded>>

ReadPdfText ==
    /\ call = NoCall
    /\ \E file_path \in FilePathArgs, url \in UrlArgs, page_range \in PageRanges :
       \E io \in IoAsked(file_path, url) :
       \E r \in {read_pdf_text(file_path, url, page_range, io,
                               Files(user_files, temp_files), temp_count)} :
          ToolReturns([r EXCEPT !.page_range = page_range],
                      "read_pdf_text", file_path, url, io)
    /\ AnalyzerUnchanged

ExtractPdfImages ==
    /\ call = NoCall
    /\ \E file_path \in FilePathArgs, url \in UrlArgs, page_range \in ImagePageRanges :
       \E io \in IoAsked(file_path, url) :
       \E analyze_images \in BOOLEAN :
       \E use_vision \in IF analyze_images THEN BOOLEAN ELSE {FALSE} :
       \E env \in IF analyze_images THEN EnvsAsked(tesseract_cmd)
                  ELSE {CHOOSE e \in EnvsAsked(tesseract_cmd) : TRUE} :
       \E ocr \in IF analyze_images THEN {NoText, [raises |-> FALSE, text |-> <<97>>]}
                  ELSE {NoText} :
       \E loader \in IF use_vision
                     THEN LoadersAsked(VISION_MODEL_AVAILABLE, Globals)
                          \cap {"ok", "raise_model"}
                     ELSE {"ok"} :
       \E cap \in IF use_vision THEN {[raises |-> FALSE, text |-> <<97>>]}
                  ELSE {NoText} :
       \E fail_index \in IF analyze_images THEN {0, 2} ELSE {0} :
       \E opts \in {[analyze_images |-> analyze_images, use_vision |-> use_vision,
                     avail |-> VISION_MODEL_AVAILABLE, fail_index |-> fail_index,
                     in |-> [fail_at |-> "none", env |-> env, ocr |-> ocr,
                             loader |-> loader, cap |-> cap]]} :
       \E r \in {extract_pdf_images(file_path, url, page_range, opts, io,
                                    Files(user_files, temp_files), temp_count,
                                    tesseract_cmd, Globals)} :
          /\ ToolReturns([r EXCEPT !.page_range = page_range,
                                   !.analyze_images = analyze_images,
                                   !.use_vision = use_vision, !.in = opts],
                         "extract_pdf_images", file_path, url, io)
          /\ SetGlobals(r.g)
          /\ tesseract_cmd' = r.cmd
    /\ UNCHANGED <<VISION_MODEL_AVAILABLE, load_failed, load_succeeded>>

ReadPdfWithOcr ==
    /\ call = NoCall
    /\ \E file_path \in FilePathArgs, url \in UrlArgs, page_range \in ImagePageRanges :
       \E io \in IoAsked(file_path, url) :
       \E ocr \in {o \in OcrOutcomes : o.raises => o.text = <<>>} :
       \E r \in {read_pdf_with_ocr(file_path, url, page_range, ocr, io,
                                   Files(user_files, temp_files), temp_count)} :
          ToolReturns([r EXCEPT !.page_range = page_range, !.in = ocr],
                      "read_pdf_with_ocr", file_path, url, io)
    /\ AnalyzerUnchanged

GetPdfInfo ==
    /\ call = NoCall
    /\ \E file_path \in FilePathArgs, url \in UrlArgs :
       \E io \in IoAsked(file_path, url) :
       \E r \in {get_pdf_info(file_path, url, io,
                              Files(user_files, temp_files), temp_count)} :
          ToolReturns(r, "get_pdf_info", file_path, url, io)
    /\ AnalyzerUnchanged

AnalyzePdfStructure ==
    /\ call = NoCall
    /\ \E file_path \in FilePathArgs, url \in UrlArgs :
       \E io \in IoAsked(file_path, url) :
       \E r \in {analyze_pdf_structure(file_path, url, io,
                                       Files(user_files, temp_files), temp_count)} :
          ToolReturns(r, "analyze_pdf_structure", file_path, url, io)
    /\ AnalyzerUnchanged

Next ==
    \/ LoadVisionModel
    \/ AnalyzeImageVision
    \/ AnalyzeImageOcr
    \/ AnalyzeImageBasic
    \/ AnalyzeImageHybrid
    \/ Return

Spec == Init /\ [][Next]_vars

\* The tools of the MCP server are called one at a time.
ServerNext ==
    \/ ReadPdfText
    \/ ExtractPdfImages
    \/ ReadPdfWithOcr
    \/ GetPdfInfo
    \/ AnalyzePdfStructure
    \/ Return

ServerSpec == Init /\ [][ServerNext]_vars

----------------------------------------------------------------------------
(* Properties *)

\* The calls that go through load_vision_model.
AsksForModel(c) ==
    \/ c.op \in {"load_vision_model", "analyze_image_vision"}
    \/ c.op = "analyze_image_hybrid" /\ c.use_vision

\* C1: a failed initialisation of the captioning model is cached: once a
\* load_vision_model has failed, every later load_vision_model or
\* analyze_image_vision call reports the model as unavailable and does not call
\* the loader again.
C1_FailureIsCached ==
    [][(load_failed /\ call'.op \in {"load_vision_model", "analyze_image_vision"})
          => (call'.load_ret = Some(FALSE) /\ ~call'.invoked)]_vars

\* C2: the captioning model is loaded at most once: once a load_vision_model has
\* succeeded, no later call that asks for the model calls the loader; each is
\* told the model is loaded (load_vision_model returns True), the handles stay
\* what they are, and a caption is produced by the handle loaded then.
C2_LoadedAtMostOnce ==
    [][(load_succeeded /\ AsksForModel(call'))
          => /\ ~call'.invoked
             /\ call'.load_ret = Some(TRUE)
             /\ vision_processor' = vision_processor
             /\ vision_model' = vision_model
             /\ vision_model_loaded' = vision_model_loaded
             /\ (call'.op = "analyze_image_vision" /\ call'.captioned_by # None
                    => call'.captioned_by = vision_model)]_vars

\* C2 witness: a caption was produced, without loading, for a call that names a
\* model other than the one loaded earlier.
C2_Witness ==
    /\ call.op = "analyze_image_vision"
    /\ load_succeeded
    /\ ~call.invoked
    /\ call.captioned_by # None
    /\ call.captioned_by # Some(call.model_name)

IsHybrid == call.op = "analyze_image_hybrid"
IsBasic == call.op = "analyze_image_basic"
IsOcr == call.op = "analyze_image_ocr"

\* C3: analyze_image_hybrid never raises to its caller: whatever its three
\* sub-analyses meet, it returns a dict holding the keys ocr_text, basic_info,
\* vision_description, description and analysis_summary.
C3_HybridNeverRaises ==
    IsHybrid =>
        /\ ~call.raised
        /\ DOMAIN call.ret = {"ocr_text", "basic_info", "vision_description",
                              "description", "analysis_summary"}

\* C3 witness: a hybrid call in which the image is unreadable, OCR failed and
\* the requested caption failed.
C3_Witness ==
    /\ IsHybrid
    /\ ~call.img.readable
    /\ call.use_vision
    /\ Has(call.ocr_result, "error")
    /\ Has(call.vision_result, "error")

\* An error string the hybrid result carries for the sub-section whose own
\* result is sub: under a key of its own, or as the text it reports.
CarriesError(ret, sub, keys) ==
    \/ \E k \in keys \cap DOMAIN ret : ret[k] = sub.error
    \/ \E k \in keys \cap DOMAIN ret.analysis_summary : ret.analysis_summary[k] = sub.error

CarriesCaptionNotice(ret) ==
    \E i \in 1..Len(ret.description) : ret.description[i].kind = "caption_unavailable"

\* C4: in the result of analyze_image_hybrid every failed sub-section is reported
\* with its own error string: an OCR error string whenever OCR was unavailable or
\* failed, a caption error string whenever the requested caption was
\* unavailable or failed.
C4_ErrorStringPerSubsection ==
    (IsHybrid /\ ~call.raised) =>
        /\ Has(call.ocr_result, "error")
              => CarriesError(call.ret, call.ocr_result, {"error", "ocr_error"})
        /\ (call.use_vision /\ Has(call.vision_result, "error"))
              => \/ CarriesError(call.ret, call.vision_result, {"error", "vision_error"})
                 \/ CarriesCaptionNotice(call.ret)

\* C5: the sub-analyses of analyze_image_hybrid do not affect one another: the
\* basic_info of the result is what analyze_image_basic alone returns for the
\* image and the outcome of its colour analysis, and the ocr_text is what
\* analyze_image_ocr alone returns for the image and the state of the engine,
\* whatever the caption step (disabled, unavailable, failing, succeeding) and,
\* for basic_info, whatever the OCR step did.
C5_IndependentSubAnalyses ==
    [][(call'.op = "analyze_image_hybrid" /\ ~call'.raised)
          => /\ call'.ret.basic_info
                   = analyze_image_basic(call'.img, call'.in.fail_at).value
             /\ call'.ret.ocr_text
                   = analyze_image_ocr(tesseract_cmd, call'.img, call'.in.env,
                                       call'.in.ocr).value.ocr_text]_vars

\* C5 witness: the caption failed and OCR found no engine, and the result holds
\* the brightness of the image.
C5_Witness ==
    /\ IsHybrid
    /\ call.use_vision
    /\ Has(call.vision_result, "error")
    /\ Has(call.ocr_result, "error")
    /\ Has(call.ret.basic_info, "brightness")
    /\ call.ret.basic_info.brightness # None

\* The keys of a basic result that hold statistics, and those that hold numbers.
StatisticKeys ==
    {"dimensions", "color_mode", "aspect_ratio", "is_likely_text", "dominant_color_type",
     "average_color_rgb", "is_colorful", "brightness", "is_bright", "is_dark",
     "dominant_hue"}

NumericKeys == {"dimensions", "aspect_ratio", "average_color_rgb", "brightness"}

\* The image cannot be opened, or opens and fails when its pixels are decoded.
CannotOpenOrDecode(c) == ~c.img.readable \/ c.fail_at = "convert"

ExpectedBrightness(img) ==
    CASE img = TinyImage -> 833
      [] img = SmallImage -> 1000
      [] img = PageImage -> 850
      [] img = IconImage -> 817
      [] img = EdgeImage -> 2450
      [] img = WideImage -> 750
      [] img = TallImage -> 200
      [] img = BorderlineImage -> 1800
      [] img = MixedImage -> 733

ExpectedAverageColor(img) ==
    CASE img = TinyImage -> <<210, 20, 20>>
      [] img = SmallImage -> <<100, 100, 100>>
      [] img = PageImage -> <<85, 85, 85>>
      [] img = IconImage -> <<15, 210, 20>>
      [] img = EdgeImage -> <<245, 250, 240>>
      [] img = WideImage -> <<200, 15, 10>>
      [] img = TallImage -> <<10, 10, 40>>
      [] img = BorderlineImage -> <<180, 180, 180>>
      [] img = MixedImage -> <<86, 86, 48>>

ExpectedAspectRatio(img) ==
    CASE img = TinyImage -> 100
      [] img = SmallImage -> 30
      [] img = PageImage -> 100
      [] img = IconImage -> 490
      [] img = EdgeImage -> 100
      [] img = WideImage -> 400
      [] img = TallImage -> 25
      [] img = BorderlineImage -> 60
      [] img = MixedImage -> 100

\* C7: every numeric statistic analyze_image_basic reports is the value computed
\* from the image or is None; None exactly when the step that computes it did
\* not complete, never a default such as 0.
C7_NumericComputedOrAbsent ==
    (IsBasic /\ call.img.readable) =>
        /\ call.ret.brightness =
              IF Completed(call.fail_at, "brightness")
              THEN Some(ExpectedBrightness(call.img)) ELSE None
        /\ call.ret.average_color_rgb =
              IF Completed(call.fail_at, "avg_color")
              THEN Some(ExpectedAverageColor(call.img)) ELSE None
        /\ call.ret.aspect_ratio = ExpectedAspectRatio(call.img)

\* C7 witness: the colour analysis failed between the average colour and the
\* brightness.
C7_Witness ==
    /\ IsBasic
    /\ call.img = TinyImage
    /\ call.fail_at = "variance"
    /\ call.ret.average_color_rgb = Some(<<210, 20, 20>>)
    /\ call.ret.brightness = None

\* The step of the colour analysis that yields each statistic.
StepOf(key) ==
    CASE key = "average_color_rgb" -> "avg_color"
      [] key = "is_colorful" -> "variance"
      [] key \in {"brightness", "is_bright", "is_dark"} -> "brightness"
      [] key = "dominant_hue" -> "hue"
      [] key = "is_likely_text" -> "text"

OptionalKeys == {"average_color_rgb", "brightness"}

FlagKeys == {"is_colorful", "is_bright", "is_dark", "is_likely_text"}

\* C8: when the colour analysis fails at some step the result still has the
\* dimensions and no error, the statistics of the steps before it keep their
\* computed values, and every statistic of the failing step and of the steps
\* after it, the flags included, is absent (missing or None) from the result.
C8_FailedStatisticsAbsent ==
    (IsBasic /\ call.img.readable /\ call.fail_at # "none") =>
        /\ Has(call.ret, "dimensions")
        /\ ~Has(call.ret, "error")
        /\ \A k \in OptionalKeys :
              IF Completed(call.fail_at, StepOf(k))
              THEN call.ret[k] = analyze_image_basic(call.img, "none").value[k]
              ELSE ~Has(call.ret, k) \/ call.ret[k] = None
        /\ \A k \in FlagKeys :
              IF Completed(call.fail_at, StepOf(k))
              THEN call.ret[k] = analyze_image_basic(call.img, "none").value[k]
              ELSE ~Has(call.ret, k)

\* C9: for a readable image narrower or shorter than 10 pixels
\* analyze_image_basic reports an error and its result has no numeric field.
C9_TinyImageIsAnError ==
    (IsBasic /\ call.img.readable
       /\ (call.img.width < MIN_IMAGE_SIZE \/ call.img.height < MIN_IMAGE_SIZE)) =>
        /\ Has(call.ret, "error")
        /\ DOMAIN call.ret \cap NumericKeys = {}

\* Readable, at least 10 pixels each way, and under 50 pixels one way.
SmallForOcr(img) ==
    /\ img.readable
    /\ img.width >= MIN_IMAGE_SIZE /\ img.height >= MIN_IMAGE_SIZE
    /\ (img.width < OCR_MIN_SIZE \/ img.height < OCR_MIN_SIZE)

\* The engine is configured or found, and passes a version check.
EngineWorks(cmd, env) ==
    /\ (cmd # "" /\ env.cmd_exists) \/ env.found
    /\ env.version_ok \/ (env.found /\ env.retry_ok)

\* C10 as claimed: for such an image analyze_image_ocr returns empty text with
\* the "too small" indication whatever the state of the OCR engine.
C10_TooSmallWhateverEngine ==
    (IsOcr /\ SmallForOcr(call.img)) =>
        /\ call.ret.ocr_text = <<>>
        /\ Has(call.ret, "error")
        /\ call.ret.error = "Image too small for OCR"

\* C10 as amended: for such an image basic statistics succeed and OCR is never
\* run: analyze_image_ocr returns empty text with an error string, which is the
\* "too small" indication when the engine is installed and passes its version
\* check and the error of the engine when it is missing or fails the check.
C10_TooSmallWhenEngineWorks ==
    [][(call'.op \in {"analyze_image_ocr", "analyze_image_hybrid", "analyze_image_basic"}
          /\ SmallForOcr(call'.img)) =>
          /\ call'.op = "analyze_image_ocr" =>
                /\ ~call'.ran
                /\ call'.ret.ocr_text = <<>>
                /\ ~call'.ret.has_text
                /\ Has(call'.ret, "error")
                /\ call'.ret.error =
                      IF EngineWorks(tesseract_cmd, call'.env)
                      THEN "Image too small for OCR"
                      ELSE IF (tesseract_cmd # "" /\ call'.env.cmd_exists) \/ call'.env.found
                      THEN "Tesseract not working"
                      ELSE "Tesseract not installed or not in PATH"
          /\ call'.op = "analyze_image_hybrid" =>
                ~call'.ocr_ran /\ call'.ret.ocr_text = <<>>
          /\ call'.op = "analyze_image_basic" =>
                /\ ~Has(call'.ret, "error")
                /\ Has(call'.ret, "dimensions")
                /\ call'.fail_at = "none" => call'.ret.brightness # None]_vars

\* C10 witness: OCR of a 49x10 image with a working engine was skipped as too
\* small.
C10_Witness ==
    /\ IsOcr
    /\ call.img = IconImage
    /\ ~call.ran
    /\ call.ret.error = "Image too small for OCR"

----------------------------------------------------------------------------
(* Properties of the statistics and of the description *)

\* The kinds of the clauses of a description, in order, and the clauses of a kind.
Kinds(description) == [i \in 1..Len(description) |-> description[i].kind]

ClausesOfKind(description, kind) ==
    {i \in 1..Len(description) : description[i].kind = kind}

\* The colour analysis of the call ran to its end on an image that opened.
StatsSucceeded(c) ==
    /\ c.img.readable
    /\ IF c.op = "analyze_image_hybrid" THEN c.in.fail_at = "none" ELSE c.fail_at = "none"

\* C11: for every grayscale (single-channel) source image analyze_image_basic
\* reports dominant_hue "grayscale" and dominant_color_type "grayscale", and the
\* description of the hybrid analysis then holds the clause "The image is
\* grayscale".
C11_GrayscaleLabelled ==
    /\ (IsBasic /\ StatsSucceeded(call) /\ call.img.mode = "L") =>
          /\ call.ret.dominant_hue = "grayscale"
          /\ call.ret.dominant_color_type = "grayscale"
    /\ (IsHybrid /\ StatsSucceeded(call) /\ call.img.mode = "L") =>
          \E i \in ClausesOfKind(call.ret.description, "hue") :
              call.ret.description[i].text = "grayscale"

\* The channels, by number and by name.
ChannelName(c) == <<"red", "green", "blue">>[c]

\* Channel c holds the maximum of pixel p and no other channel reaches it.
StrictMax(p, c) == \A d \in (1..3) \ {c} : p[d] < p[c]

\* The share of the pixels whose strict maximum is channel c exceeds 0.4.
StrictlyDominant(pixels, c) ==
    5 * Cardinality({i \in 1..Len(pixels) : StrictMax(pixels[i], c)}) > 2 * Len(pixels)

\* C12: for a 3-channel image, a pixel counting for a channel only when that
\* channel is strictly its maximum, dominant_hue is "mixed" exactly when no
\* channel's share of the pixels exceeds 0.4 and is otherwise the name of a
\* channel whose share exceeds 0.4.
C12_HueByStrictMaximum ==
    (IsBasic /\ StatsSucceeded(call) /\ call.img.mode = "RGB") =>
        LET hue == call.ret.dominant_hue
            winners == {c \in 1..3 : StrictlyDominant(call.img.pixels, c)}
        IN /\ (hue = "mixed") <=> (winners = {})
           /\ (hue # "mixed") => \E c \in winners : hue = ChannelName(c)

\* Every pixel of the image has the same colour.
Uniform(img) == \A i \in 1..Len(img.pixels) : img.pixels[i] = img.pixels[1]

\* The colour (R, G, B) of the first pixel in the RGB conversion of the image.
ColourOf(img) == ConvertRGB(img).pixels[1]

\* |a - b|
Distance(a, b) == IF a >= b THEN a - b ELSE b - a

\* 0.2989*R + 0.5870*G + 0.1140*B, in ten-thousandths.
Luminance(p) == 2989 * p[1] + 5870 * p[2] + 1140 * p[3]

ValueTotal(img) == SumSeq(AllValues(ConvertRGB(img).pixels))
ValueCount(img) == 3 * Len(img.pixels)

\* The wording of the brightness clause of a description, if it has exactly one.
BrightnessWording(description) ==
    LET at == ClausesOfKind(description, "brightness") IN
    IF Cardinality(at) = 1 THEN description[CHOOSE i \in at : TRUE].text ELSE "none"

\* C14 as claimed: the reported brightness and the reported flags agree with
\* the thresholds: is_bright iff brightness > 180, is_dark iff brightness < 75,
\* never both, and whenever brightness is present the description holds
\* exactly one brightness clause: bright, dark, or moderate for
\* 75 <= brightness <= 180.
C14_FlagsAgreeWithReportedBrightness ==
    /\ (IsBasic /\ call.img.readable /\ call.ret.brightness # None) =>
          LET b == call.ret.brightness[1] IN
          /\ call.ret.is_bright <=> (b > 10 * BRIGHT_THRESHOLD)
          /\ call.ret.is_dark <=> (b < 10 * DARK_THRESHOLD)
          /\ ~(call.ret.is_bright /\ call.ret.is_dark)
    /\ (IsHybrid /\ call.img.readable /\ call.ret.basic_info.brightness # None) =>
          LET b == call.ret.basic_info.brightness[1] IN
          BrightnessWording(call.ret.description) =
              IF b > 10 * BRIGHT_THRESHOLD THEN "bright and well-lit"
              ELSE IF b < 10 * DARK_THRESHOLD THEN "dark or dimly lit"
              ELSE "moderate brightness"

\* C14 as amended: the flags are decided by the mean of the sampled values
\* before it is rounded: is_bright iff mean > 180, is_dark iff mean < 75, never
\* both; the reported brightness is that mean rounded to one decimal, so that
\* an image may be reported bright with brightness 180.0 or dark with
\* brightness 75.0, and otherwise the reported value agrees with the flags;
\* whenever brightness is present the description holds exactly one brightness
\* clause, which follows the flags: bright, dark, or else moderate.
C14_FlagsFollowUnroundedMean ==
    /\ (IsBasic /\ call.img.readable /\ call.ret.brightness # None) =>
          LET b == call.ret.brightness[1]
              total == ValueTotal(call.img)
              count == ValueCount(call.img)
          IN /\ call.ret.is_bright <=> (total > BRIGHT_THRESHOLD * count)
             /\ call.ret.is_dark <=> (total < DARK_THRESHOLD * count)
             /\ ~(call.ret.is_bright /\ call.ret.is_dark)
             /\ Distance(2 * b * count, 20 * total) <= count
             /\ (b > 10 * BRIGHT_THRESHOLD) => call.ret.is_bright
             /\ call.ret.is_bright => (b >= 10 * BRIGHT_THRESHOLD)
             /\ (b < 10 * DARK_THRESHOLD) => call.ret.is_dark
             /\ call.ret.is_dark => (b <= 10 * DARK_THRESHOLD)
    /\ (IsHybrid /\ call.img.readable /\ call.ret.basic_info.brightness # None) =>
          BrightnessWording(call.ret.description) =
              IF call.ret.basic_info.is_bright THEN "bright and well-lit"
              ELSE IF call.ret.basic_info.is_dark THEN "dark or dimly lit"
              ELSE "moderate brightness"
    /\ (IsHybrid /\ (~Has(call.ret.basic_info, "brightness")
                        \/ call.ret.basic_info.brightness = None)) =>
          ClausesOfKind(call.ret.description, "brightness") = {}

\* C14 witness: an image whose values have the mean 180.05 is reported bright,
\* with brightness 180.0, and described as bright.
C14_Witness ==
    /\ IsHybrid
    /\ call.img = BorderlineImage
    /\ call.ret.basic_info.brightness = Some(10 * BRIGHT_THRESHOLD)
    /\ call.ret.basic_info.is_bright
    /\ BrightnessWording(call.ret.description) = "bright and well-lit"

\* The orientation named by the first clause of a description.
FirstOrientation(description) ==
    IF description # <<>> /\ description[1].kind = "orientation"
    THEN description[1].text ELSE "none"

\* C15 as claimed: for every readable image of width w and height h the first
\* clause of the description names the orientation decided by w/h: wide iff
\* w/h > 2.0, tall iff w/h < 0.6, standard otherwise.
C15_OrientationByExactRatio ==
    (IsHybrid /\ call.img.readable) =>
        LET w == call.img.width
            h == call.img.height
        IN FirstOrientation(call.ret.description) =
              IF w > 2 * h THEN "wide, panoramic"
              ELSE IF 10 * w < 6 * h THEN "tall, portrait-oriented"
              ELSE "standard"

\* C15 as amended: for every readable image of width w and height h the first
\* clause of the description gives the size w x h and names the orientation
\* decided by the reported aspect ratio, which is w/h rounded to two decimals:
\* wide iff it is above 2.0, tall iff it is below 0.6, standard otherwise; so
\* 1600x400 is wide, 400x1600 is tall, and 28x47 (0.5957, reported 0.6) is
\* standard.
C15_OrientationByRoundedRatio ==
    (IsHybrid /\ call.img.readable) =>
        LET w == call.img.width
            h == call.img.height
            r == call.ret.basic_info.aspect_ratio
        IN /\ Distance(2 * r * h, 200 * w) <= h
           /\ call.ret.description[1].arg = <<w, h>>
           /\ FirstOrientation(call.ret.description) =
                 IF r > 200 THEN "wide, panoramic"
                 ELSE IF r < 60 THEN "tall, portrait-oriented"
                 ELSE "standard"
           /\ (w = 1600 /\ h = 400) =>
                 FirstOrientation(call.ret.description) = "wide, panoramic"
           /\ (w = 400 /\ h = 1600) =>
                 FirstOrientation(call.ret.description) = "tall, portrait-oriented"

\* C15 witness: the 28x47 image, whose ratio is below 0.6, is described as
\* standard.
C15_Witness ==
    /\ IsHybrid
    /\ call.img = BorderlineImage
    /\ 10 * call.img.width < 6 * call.img.height
    /\ FirstOrientation(call.ret.description) = "standard"

\* C16: the description holds an OCR clause iff the OCR text is not empty; a
\* text longer than 200 characters is embedded as its first 200 characters
\* followed by "...", a text of 200 characters or fewer whole and without the
\* ellipsis; the ocr_text of the result is the text analyze_image_ocr returned,
\* never truncated.
C16_OcrClauseTruncatedAt200 ==
    IsHybrid =>
        LET text == call.ret.ocr_text
            at == ClausesOfKind(call.ret.description, "ocr")
        IN /\ text = call.ocr_result.ocr_text
           /\ call.ocr_ran => text = Strip(call.in.ocr.text)
           /\ (at # {}) <=> (text # <<>>)
           /\ Cardinality(at) <= 1
           /\ \A i \in at :
                 LET preview == call.ret.description[i].arg IN
                 IF Len(text) > 200
                 THEN /\ Len(preview) = 203
                      /\ \A k \in 1..200 : preview[k] = text[k]
                      /\ \A k \in 201..203 : preview[k] = 46
                 ELSE preview = text

\* C16 witness: an OCR text of 250 characters is returned whole and embedded
\* as 200 characters and the ellipsis.
C16_Witness ==
    /\ IsHybrid
    /\ Len(call.ret.ocr_text) = 250
    /\ \E i \in ClausesOfKind(call.ret.description, "ocr") :
          Len(call.ret.description[i].arg) = 203

\* The place of each kind of clause in the fixed order; the notice that the
\* requested caption is unavailable stands where the caption would.
Rank(kind) ==
    CASE kind = "orientation" -> 1
      [] kind = "hue" -> 2
      [] kind = "colorful" -> 3
      [] kind = "brightness" -> 4
      [] kind = "content" -> 5
      [] kind = "ocr" -> 6
      [] kind \in {"caption", "caption_unavailable"} -> 7
      [] OTHER -> 0

\* C17: in every description of analyze_image_hybrid the clauses present
\* stand in the order orientation, hue, colourfulness, brightness,
\* text-likelihood, OCR text, caption, and no kind of clause stands twice.
C17_ClauseOrderFixed ==
    IsHybrid =>
        LET d == call.ret.description IN
        /\ \A i \in 1..Len(d) : Rank(d[i].kind) > 0
        /\ \A i, j \in 1..Len(d) : i < j => Rank(d[i].kind) < Rank(d[j].kind)

\* C17 witness: a description that holds all seven kinds of clause.
C17_Witness ==
    /\ IsHybrid
    /\ Kinds(call.ret.description) =
          <<"orientation", "hue", "colorful", "brightness", "content", "ocr", "caption">>

\* The hue clause of a description names the hue; "none" when there is no such
\* clause.
HueNamed(description) ==
    LET at == ClausesOfKind(description, "hue") IN
    IF at = {} THEN "none" ELSE description[CHOOSE i \in at : TRUE].text

\* C18 as claimed: the description holds a hue clause exactly when the basic
\* statistics hold a dominant hue other than "unknown": one is emitted for red,
\* green, blue, mixed and grayscale, none for "unknown" or missing statistics.
C18_HueClauseUnlessUnknown ==
    IsHybrid =>
        LET info == call.ret.basic_info IN
        (ClausesOfKind(call.ret.description, "hue") # {})
            <=> (Has(info, "dominant_hue")
                    /\ info.dominant_hue \in {"red", "green", "blue", "mixed", "grayscale"})

\* C18 as amended: the description holds a hue clause exactly when the basic
\* statistics hold the dominant hue red, green, blue or grayscale, and the
\* clause names that hue; for "mixed", as for "unknown" and for missing
\* statistics, no hue clause is emitted.
C18_HueClauseForNamedHue ==
    IsHybrid =>
        LET info == call.ret.basic_info IN
        HueNamed(call.ret.description) =
            IF Has(info, "dominant_hue")
                  /\ info.dominant_hue \in {"red", "green", "blue", "grayscale"}
            THEN info.dominant_hue ELSE "none"

\* C18 witness: the statistics succeeded with the hue "mixed" and the
\* description, which has its other clauses, holds no hue clause.
C18_Witness ==
    /\ IsHybrid
    /\ StatsSucceeded(call)
    /\ call.ret.basic_info.dominant_hue = "mixed"
    /\ HueNamed(call.ret.description) = "none"
    /\ ClausesOfKind(call.ret.description, "colorful") # {}

\* The kinds of clause that speak of the caption.
CaptionKinds == {"caption", "caption_unavailable"}

\* C19: when caption generation is disabled (use_vision = false) the hybrid
\* analysis neither loads nor invokes the captioning model (load_vision_model
\* is not called and the model globals stay as they are), the result's
\* vision_description is None and has_vision_description false, and the
\* description holds no caption clause and no notice about the caption,
\* whatever OCR and the statistics did.
C19_NoCaptionWhenDisabled ==
    [][(call'.op = "analyze_image_hybrid" /\ ~call'.use_vision) =>
          /\ UNCHANGED <<vision_processor, vision_model, vision_model_loaded,
                         load_failed, load_succeeded>>
          /\ ~call'.invoked
          /\ call'.load_ret = None
          /\ call'.vision_result = EmptyDict
          /\ call'.ret.vision_description = None
          /\ ~call'.ret.analysis_summary.has_vision_description
          /\ \A i \in 1..Len(call'.ret.description) :
                call'.ret.description[i].kind \notin CaptionKinds]_vars

\* C19 witness: a hybrid analysis without caption, run when the dependencies
\* are importable and no model is loaded, that found text by OCR.
C19_Witness ==
    /\ IsHybrid
    /\ ~call.use_vision
    /\ VISION_MODEL_AVAILABLE
    /\ ~vision_model_loaded
    /\ call.ret.ocr_text # <<>>
    /\ call.ret.vision_description = None

\* The statistics succeeded and there is neither OCR text nor a caption.
OnlyStatistics(c) ==
    /\ StatsSucceeded(c)
    /\ c.ret.ocr_text = <<>>
    /\ ~c.ret.analysis_summary.has_vision_description

CaptionFailed(c) == c.use_vision /\ Has(c.vision_result, "error")

\* What analyze_image_hybrid returns with the caption disabled, for the OCR
\* result and the statistics of the call c.
WithCaptionDisabled(c) ==
    HybridResult(c.ocr_result, c.ret.basic_info, FALSE, EmptyDict)

StatisticKinds == {"orientation", "hue", "colorful", "brightness", "content"}

\* C22: the description is made of the clauses produced and of nothing else,
\* and the fallback sentence is emitted exactly when no clause was produced: in
\* particular, for an unreadable image with neither OCR text nor caption no
\* clause derived from the statistics is produced, and the description is the
\* fallback sentence.
C22_FallbackWhenNothingKnown ==
    (IsHybrid /\ ~call.img.readable /\ call.ret.ocr_text = <<>> /\ ~call.use_vision) =>
        /\ \A i \in 1..Len(call.ret.description) :
              call.ret.description[i].kind \notin StatisticKinds
        /\ call.ret.description = FallbackDescription

\* C27: the model_used of every successful analyze_image_vision result names
\* the model held in the process-wide handle, which produced the caption.
C27_ModelUsedIsModelHeld ==
    (call.op = "analyze_image_vision" /\ Has(call.ret, "model_used")) =>
        /\ call.captioned_by = vision_model
        /\ Some(call.ret.model_used) = vision_model

----------------------------------------------------------------------------
(* Properties of the PDF tools *)

ToolNames ==
    {"read_pdf_text", "extract_pdf_images", "read_pdf_with_ocr", "get_pdf_info",
     "analyze_pdf_structure"}

IsToolCall == call.op \in ToolNames

\* The names of the caller's files that do not end in .pdf, whatever the case.
NotPdfNames == {"notes.txt"}

\* The arguments name no usable source: both file_path and url, neither, a
\* file that does not exist, or a file whose suffix is not .pdf.
InvalidArguments(c) ==
    \/ c.file_path # None /\ c.url # None
    \/ c.file_path = None /\ c.url = None
    \/ /\ c.file_path # None
       /\ c.url = None
       /\ (c.file_path[1] \notin UserFiles \/ c.file_path[1] \in NotPdfNames)

\* C23: a tool called with both file_path and url, with neither, with a file
\* that does not exist or with a file whose suffix is not .pdf downloads
\* nothing, creates no temporary file, raises nothing and returns success =
\* false with an error string; and every call of a tool returns a dict whose
\* success is true or false.
C23_InvalidArgumentsRejected ==
    IsToolCall =>
        /\ ~call.raised
        /\ Has(call.ret, "success")
        /\ call.ret.success \in BOOLEAN
        /\ InvalidArguments(call) =>
              /\ ~call.downloaded
              /\ call.created = None
              /\ ~call.opened
              /\ ~call.ret.success
              /\ Has(call.ret, "error")
              /\ call.ret.error # ""

\* C23 witness: extract_pdf_images was called with a file and a url at once
\* and answered with a failure.
C23_Witness ==
    /\ call.op = "extract_pdf_images"
    /\ call.file_path = Some("report.pdf")
    /\ call.url = Some("https://host/report.pdf")
    /\ ~call.ret.success
    /\ temp_count = 0

\* The tools that take a page_range.
RangedTools == {"read_pdf_text", "extract_pdf_images", "read_pdf_with_ocr"}

\* C24: for a document of at least one page and any page_range, the range
\* computed satisfies 0 <= start <= end <= total_pages - 1 and every page
\* visited exists; for 1 <= s <= e <= total_pages it is (s - 1, e - 1), and
\* for an absent page_range it is (0, total_pages - 1).
C24_PageRangeValidated ==
    (call.op \in RangedTools /\ call.opened) =>
        /\ call.total_pages >= 1
        /\ 0 <= call.range[1][1]
        /\ call.range[1][1] <= call.range[1][2]
        /\ call.range[1][2] <= call.total_pages - 1
        /\ \A i \in 1..Len(call.visited) : call.visited[i] \in 0..(call.total_pages - 1)
        /\ DOMAIN call.page_range = {} => call.range[1] = <<0, call.total_pages - 1>>
        /\ (/\ DOMAIN call.page_range = {"start", "end"}
            /\ 1 <= call.page_range.start
            /\ call.page_range.start <= call.page_range.end
            /\ call.page_range.end <= call.total_pages) =>
              call.range[1] = <<call.page_range.start - 1, call.page_range.end - 1>>

\* C24 witness: read_pdf_text was asked for pages 3 to 1 of a document of two
\* pages and read a page that exists.
C24_Witness ==
    /\ call.op = "read_pdf_text"
    /\ call.opened
    /\ call.total_pages = 2
    /\ DOMAIN call.page_range = {"start", "end"}
    /\ call.page_range.start = 3
    /\ call.page_range.end = 1
    /\ call.ret.success
    /\ Len(call.visited) = 1

\* C25: when a tool called with a url returns, the temporary file created for
\* the download no longer exists, on the success path and on every error
\* path; and a tool called with file_path never deletes the caller's file.
C25_TempFileRemoved ==
    IsToolCall =>
        /\ call.created # None => call.created[1] \notin temp_files
        /\ user_files = UserFiles

\* The document a call of a tool reads.
DocOfCall(c) == IF c.url # None THEN UrlContent(c.url[1]) ELSE FileContent(c.file_path[1])

\* The images of the page range that can be extracted and are not too small,
\* as (page_number, image_index).
Extractable(doc, range) ==
    {<<p, j>> \in (range[1] + 1..range[2] + 1) \X (1..4) :
        /\ j <= Len(doc.pages[p].images)
        /\ doc.pages[p].images[j].ok
        /\ doc.pages[p].images[j].img.width >= 10
        /\ doc.pages[p].images[j].img.height >= 10}

\* C26: in a successful result of extract_pdf_images, images_extracted =
\* summary.total_images = the number of images listed; images_analyzed is that
\* number when analyze_images is true and 0 when it is false; images_with_text
\* <= images_analyzed; no image listed is narrower or shorter than 10; and the
\* images listed are all the images of the page range that can be extracted
\* and are large enough, whatever failed for the others.
C26_CountsAgreeWithImages ==
    (call.op = "extract_pdf_images" /\ call.ret.success) =>
        /\ call.ret.images_extracted = Len(call.ret.images)
        /\ call.ret.summary.total_images = Len(call.ret.images)
        /\ call.ret.summary.images_analyzed =
              (IF call.analyze_images THEN Len(call.ret.images) ELSE 0)
        /\ call.ret.summary.images_with_text <= call.ret.summary.images_analyzed
        /\ \A i \in 1..Len(call.ret.images) :
              /\ call.ret.images[i].width >= 10
              /\ call.ret.images[i].height >= 10
        /\ {<<call.ret.images[i].page_number, call.ret.images[i].image_index>> :
               i \in 1..Len(call.ret.images)} = Extractable(DocOfCall(call), call.range[1])
        /\ Cardinality(Extractable(DocOfCall(call), call.range[1])) = Len(call.ret.images)

\* C26 witness: a page with an image that is too small, an image that cannot
\* be extracted and an image whose colour analysis failed; the other image is
\* listed and analysed, and some image has text.
C26_Witness ==
    /\ call.op = "extract_pdf_images"
    /\ call.ret.success
    /\ call.analyze_images
    /\ call.page_range = [start |-> 1, end |-> 1]
    /\ call.file_path = Some("report.pdf")
    /\ Len(call.ret.images) = 2
    /\ call.ret.images[1].analysis.basic_info.brightness = None
    /\ call.ret.images[2].analysis.basic_info.brightness # None
    /\ call.ret.summary.images_with_text >= 1

====
